---- MODULE Spec2Model ----
(***************************************************************************)
(* Simple Procedural Walk (FAnimNode_SPW): the per-tick computation of a   *)
(* procedural legged-locomotion controller.                                *)
(*                                                                         *)
(* Geometry is the vertical plane through the body's forward axis: a point *)
(* is [x, z], x along the actor's forward vector and z along its up        *)
(* vector.  Velocities are along the forward axis, so RightPercent is 0.   *)
(* Lengths are in world units, times in milliseconds, and a step percent   *)
(* p in [0,1] is the integer p * PctOne.  Distances are compared by their  *)
(* squares, which is exact on integers.  Transforms are translations.      *)
(***************************************************************************)
EXTENDS Integers, Sequences, FiniteSets, TLC

(* ---------------- program constants ---------------- *)
FRAMES_TO_SKIP_ON_INIT == 2
SPEED_THRESHOLD_MIN == 2
MinSpeedWithAngular == 5
StepHeight == 20
StepDistanceForward == 50
StepDistanceRight == 30
MinStepDurationMs == 150
MinDistanceToUnplant == 5
TraceLength == 350
TraceZOffset == 50
\* DistanceCheckMultiplier = 1.2f, StepSlopeReductionMultiplier = .75f,
\* FixFeetTargetsAfterPercent = .5f: as tenths, percent and halves.
DistanceCheckMultiplierTenths == 12
StepSlopeReductionMultiplierPct == 75
FixFeetTargetsAfterPercentDen == 2

(* ---------------- bounds of the model ---------------- *)
\* resolution of a step percent: StepPercent = k / PctOne, k in 0..PctOne
PctOne == 4
MaxPending == 4
\* half height of the owner above the mesh origin, the legs' resting length
HalfHeight == 20

FixFeetTargetsAfterPercent == PctOne \div FixFeetTargetsAfterPercentDen

(* ---------------- small helpers ---------------- *)
Abs(n) == IF n < 0 THEN -n ELSE n
Max2(a, b) == IF a < b THEN b ELSE a
Pt(x, z) == [x |-> x, z |-> z]
ZeroVector == Pt(0, 0)
Sq(n) == n * n
Dist2(a, b) == Sq(a.x - b.x) + Sq(a.z - b.z)
\* FMath::Clamp: X < Min ? Min : X < Max ? X : Max
Clamp(x, lo, hi) == IF x < lo THEN lo ELSE IF x < hi THEN x ELSE hi
\* FMath::Lerp(A, B, Alpha) with Alpha = num / PctOne
Lerp(a, b, num) == Pt(a.x + ((b.x - a.x) * num) \div PctOne,
                      a.z + ((b.z - a.z) * num) \div PctOne)
\* F applied to the value of v: the value is computed once, however often F uses it
With(v, F(_)) == CHOOSE r \in { F(x) : x \in {v} } : TRUE
Range(f) == {f[i] : i \in DOMAIN f}

(* ---------------- configuration ---------------- *)
\* A rig: Legs[l] is leg l's parent-bone location relative to the actor plus the
\* leg's offset (forward coordinate), LegGroups[g] the leg indices of group g.
Rig(legs, groups) == [Legs |-> legs, LegGroups |-> groups]
OneGroup == Rig([l \in 0..1 |-> IF l = 0 THEN 2 ELSE -10], [g \in 0..0 |-> {0, 1}])
TwoGroups == Rig([l \in 0..1 |-> IF l = 0 THEN 2 ELSE -10], [g \in 0..1 |-> {g}])
ThreeGroups == Rig([l \in 0..2 |-> (1 - l) * 10], [g \in 0..2 |-> {g}])
BadRigs ==
  { Rig([l \in {} |-> 0], [g \in {} |-> {}]),
    Rig([l \in 0..0 |-> 0], [g \in {} |-> {}]) }

\* the query provider's answer under one probe anchor (see LineTraceSingle,
\* SphereTraceMulti below)
Cells == {"Flat", "Platform", "Pit", "PitLedge", "PitWall", "PitGhost", "Void", "VoidLedge"}
Zones == {"here", "ahead"}
Terrains ==
  { [here |-> "Flat", ahead |-> "Flat"],
    [here |-> "Platform", ahead |-> "Void"],
    [here |-> "Pit", ahead |-> "PitLedge"],
    [here |-> "VoidLedge", ahead |-> "PitWall"],
    [here |-> "Flat", ahead |-> "PitGhost"] }

\* the inputs of a tick, by the scope of the environment a behaviour is in:
\* tick times (ms), motions, actor and platform positions, socket drifts
SlopeMults == {100 - StepSlopeReductionMultiplierPct, 100}
Scopes == {"gait", "near", "probe", "motion", "async", "platform"}
DtsOf(sc) == IF sc \in {"near", "motion"} THEN {0, 125} ELSE {125}
MotionsOf(sc) ==
  IF sc = "motion"
  THEN { [v |-> 0, yaw |-> 0], [v |-> 2, yaw |-> 3], [v |-> 5, yaw |-> 0],
         [v |-> 100, yaw |-> 0], [v |-> 0, yaw |-> 12] }
  ELSE IF sc = "async" THEN { [v |-> 0, yaw |-> 0] }
  ELSE { [v |-> 0, yaw |-> 0], [v |-> 100, yaw |-> 0] }
ActorXsOf(sc) ==
  IF sc = "near" THEN {0, 4, 5} ELSE IF sc \in {"probe", "async", "platform"} THEN {0, 5} ELSE {0}
PlatformXsOf(sc) == IF sc = "platform" THEN {0, 3} ELSE {0}
TipDriftsOf(sc) == IF sc = "platform" THEN {0, 7} ELSE {0}
SlopeMultsOf(sc) == IF sc = "motion" THEN SlopeMults ELSE {100}

VARIABLES pc, scope, cfg, node, world, tk, game
vars == <<pc, scope, cfg, node, world, tk, game>>

NumLegs == Cardinality(DOMAIN cfg.Legs)
NumGroups == Cardinality(DOMAIN cfg.LegGroups)
LegIdx == DOMAIN cfg.Legs
GroupIdx == DOMAIN cfg.LegGroups

(* ---------------- the host: body accessor and spatial queries ---------------- *)
\* OwnerPawn->GetActorTransform(): the actor stands HalfHeight above the ground z = 0
ActorLocation(w) == Pt(w.ActorX, HalfHeight)
\* FTransform(rel) * ActorTransform: a relative location in world space
ToWorld(w, rel) == Pt(rel.x + w.ActorX, rel.z + HalfHeight)
\* a component's transform: the static ground never moves, the platform does
ComponentTransform(w, comp) == IF comp = "Platform" THEN w.PlatformX ELSE 0

HitAt(p, omd, comp, blocking) ==
  [bBlockingHit |-> blocking, ImpactPoint |-> p, OneMinusDot |-> omd, Component |-> comp]
\* FHitResult(): zeroed, no blocking hit, no component
DefaultHit == HitAt(ZeroVector, 1, "None", FALSE)

ZoneOf(x) == IF x >= 30 THEN "ahead" ELSE "here"
CellAt(w, a) == w.Terrain[ZoneOf(a.x)]

\* UKismetSystemLibrary::LineTraceSingle from above the anchor a straight down:
\* [bIsHit, Hit]; on a miss the hit result is the zeroed FHitResult.
LineTraceSingle(w, a) ==
  LET c == CellAt(w, a) IN
  IF c \in {"Flat"} THEN [bIsHit |-> TRUE, Hit |-> HitAt(Pt(a.x, 0), 0, "Ground", TRUE)]
  ELSE IF c = "Platform" THEN [bIsHit |-> TRUE, Hit |-> HitAt(Pt(a.x, 0), 0, "Platform", TRUE)]
  ELSE IF c \in {"Pit", "PitLedge", "PitWall", "PitGhost"}
       THEN [bIsHit |-> TRUE, Hit |-> HitAt(Pt(a.x, 0 - HalfHeight), 0, "Ground", TRUE)]
  ELSE [bIsHit |-> FALSE, Hit |-> DefaultHit]

\* UKismetSystemLibrary::SphereTraceMulti along the same segment: the candidates
SphereTraceMulti(w, a) ==
  LET c == CellAt(w, a)
      ledge == HitAt(Pt(a.x + 3, 0), 0, "Ground", TRUE)
  IN
  IF c = "Flat" THEN << HitAt(Pt(a.x, 0), 0, "Ground", TRUE) >>
  ELSE IF c = "Platform" THEN << HitAt(Pt(a.x, 0), 0, "Platform", TRUE) >>
  ELSE IF c = "PitLedge" THEN << HitAt(Pt(a.x + 2, -10), 1, "Ground", TRUE), ledge >>
  ELSE IF c = "PitWall" THEN << HitAt(Pt(a.x + 40, 0 - HalfHeight), 1, "Ground", TRUE) >>
  ELSE IF c = "PitGhost" THEN << HitAt(Pt(a.x + 3, 0), 0, "Ground", FALSE),
                                 HitAt(Pt(a.x + 4, 0), 0, "Ground", TRUE) >>
  ELSE IF c = "VoidLedge" THEN << ledge >>
  ELSE << >>

(* ---------------- helpers of the node ---------------- *)
IsLegUnplanted(n, leg) == n.GroupsData[n.LegsData[leg].GroupIndex].bIsUnplanted
GetLegStepPercent(n, leg) == n.GroupsData[n.LegsData[leg].GroupIndex].StepPercent
\* RightPercent is 0 (velocity along the forward axis), so only the pitch term is left
GetReductionSlopeMultiplier(n) == Abs(n.ForwardPercent) * n.ReduceSlopeMultiplierPitch

\* fault variant: the index is not wrapped at the number of groups
SetNextCurrentGroupIndex_NoWrap(n) == [n EXCEPT !.CurrentGroupIndex = @ + 1]
SetNextCurrentGroupIndex(this) ==
  With(this, LAMBDA n :
    LET i == n.CurrentGroupIndex + 1 IN
    [n EXCEPT !.CurrentGroupIndex = IF i = NumGroups THEN 0 ELSE i])

\* LastHit.GetComponent() becomes the leg's support component; its transform is
\* stored only when the component is valid
\* fault variant: only the first call for a leg records a support component
SetSupportComponentData_Once(this, w, leg) ==
  With(this, LAMBDA n :
    LET comp == n.LegsData[leg].LastHit.Component IN
    IF n.LegsData[leg].SupportComp # "None" THEN n
    ELSE [n EXCEPT !.LegsData[leg].SupportComp = comp,
                   !.LegsData[leg].SupportCompPreviousTransform =
                      IF comp # "None" THEN ComponentTransform(w, comp) ELSE @])
SetSupportComponentData(this, w, leg) ==
  With(this, LAMBDA n :
    LET comp == n.LegsData[leg].LastHit.Component IN
    [n EXCEPT !.LegsData[leg].SupportComp = comp,
              !.LegsData[leg].SupportCompPreviousTransform =
                 IF comp # "None" THEN ComponentTransform(w, comp) ELSE @])

RECURSIVE SetSupportComponentDataAll(_, _, _)
SetSupportComponentDataAll(this, w, legs) ==
  With(this, LAMBDA n :
    IF legs = {} THEN n
    ELSE LET l == CHOOSE x \in legs : \A y \in legs : x <= y
         IN SetSupportComponentDataAll(SetSupportComponentData(n, w, l), w, legs \ {l}))

\* A task handed to the game thread: its name, the leg or group index it captures
\* and a location.  OnGroupUp/Down and OnPawnLanded capture the location by value;
\* OnFootUp/Down capture the node and the leg index and read the leg's
\* FootLocation when they run, so their Location here is only what that read
\* would have given at the dispatch.
Task(name, i, loc) == [Name |-> name, Index |-> i, Location |-> loc]
FootTaskNames == {"OnFootUp", "OnFootDown"}

\* CallStepInterface: one task per foot of the group, in the order of the group's
\* leg indices
RECURSIVE FootTasks(_, _, _)
FootTasks(this, name, legs) ==
  With(this, LAMBDA n :
    IF legs = {} THEN << >>
    ELSE LET l == CHOOSE x \in legs : \A y \in legs : x <= y
         IN << Task(name, l, n.LegsData[l].FootLocation) >> \o FootTasks(n, name, legs \ {l}))

\* UKismetMathLibrary::GetVectorArrayAverage of the feet locations of a group
RECURSIVE SumFootLocations(_, _, _)
SumFootLocations(n, legs, axis) ==
  IF legs = {} THEN 0
  ELSE LET l == CHOOSE x \in legs : TRUE
       IN (IF axis = "z" THEN n.LegsData[l].FootLocation.z ELSE n.LegsData[l].FootLocation.x)
          + SumFootLocations(n, legs \ {l}, axis)
AverageFeetLocation(n, legs) ==
  IF legs = {} THEN ZeroVector
  ELSE Pt(SumFootLocations(n, legs, "x") \div Cardinality(legs),
          SumFootLocations(n, legs, "z") \div Cardinality(legs))

CallStepInterfaces(this, GroupIndex, bIsDown) ==
  With(this, LAMBDA n :
    [n EXCEPT !.AsyncTasks = @ \o
       FootTasks(n, IF bIsDown THEN "OnFootDown" ELSE "OnFootUp", cfg.LegGroups[GroupIndex])
       \o << Task(IF bIsDown THEN "OnGroupDown" ELSE "OnGroupUp", GroupIndex,
                  AverageFeetLocation(n, cfg.LegGroups[GroupIndex])) >>])

\* fault variant: nothing is handed over on a landing
CallLandedInterfaces_None(n, w) == n
CallLandedInterfaces(n, w) ==
  [n EXCEPT !.AsyncTasks = @ \o << Task("OnPawnLanded", 0, ActorLocation(w)) >>]

(* ---------------- MotionSampler ---------------- *)
\* CurrentStepDuration in ms: CurrentStepLength / SpeedWithAngular above the
\* threshold, else MinStepDuration
\* fault variant: the division is taken at the threshold too
StepDurationFor_AtThreshold(StepLength, SpeedWithAngular) ==
  IF SpeedWithAngular >= MinSpeedWithAngular
  THEN (StepLength * 1000) \div SpeedWithAngular
  ELSE MinStepDurationMs
StepDurationFor(StepLength, SpeedWithAngular) ==
  IF SpeedWithAngular > MinSpeedWithAngular
  THEN (StepLength * 1000) \div SpeedWithAngular
  ELSE MinStepDurationMs

\* in.v is the size of the pawn's velocity (along its forward vector), in.yaw the
\* yaw of NormalizedDeltaRotator(ActorRotation, PreviousRotation)
UpdatePawnVariables(this, in) ==
  With(this, LAMBDA n :
    LET Speed == IF in.v <= SPEED_THRESHOLD_MIN THEN 0 ELSE in.v
        \* DegAcos(dot(forward, normalized velocity)) mapped 0..180 -> 1..-1; the
        \* zeroed velocity has dot 0, 90 degrees, percent 0
        ForwardPercent == IF Speed = 0 THEN 0 ELSE 1
        n1 == [n EXCEPT !.Speed = Speed, !.ForwardPercent = ForwardPercent, !.YawDelta = in.yaw]
        StepLength ==
          ((Abs(ForwardPercent * StepDistanceForward)
            + Abs((StepDistanceRight * Clamp(in.yaw, -360, 360)) \div 360))
           * GetReductionSlopeMultiplier(n1)) \div 100
    IN [n1 EXCEPT !.CurrentStepLength = StepLength,
                  !.CurrentStepDuration = StepDurationFor(StepLength, Speed + Abs(in.yaw))])

(* ---------------- SupportTracker ---------------- *)
SetSupportCompDeltas(this, w) ==
  With(this, LAMBDA n :
    [n EXCEPT !.LegsData = [l \in DOMAIN n.LegsData |->
       LET d == n.LegsData[l] IN
       IF d.SupportComp # "None"
       THEN [d EXCEPT !.SupportCompDelta =
                         ComponentTransform(w, d.SupportComp) - d.SupportCompPreviousTransform,
                      !.SupportCompPreviousTransform = ComponentTransform(w, d.SupportComp)]
       ELSE [d EXCEPT !.SupportCompDelta = 0]]])

(* ---------------- FootPlacementSolver ---------------- *)
\* ParentBoneLocation + ForwardOffset: the probe anchor of a leg
StartLocationWithoutZOffset(n, w, LegIndex) ==
  Pt(w.ActorX + cfg.Legs[LegIndex] + StepDistanceForward * n.ForwardPercent, HalfHeight)

\* ZDistanceToLineHit > Length * DistanceCheckMultiplier, on squares
\* fault variant: no line hit is too distant
IsTooDistant_Never(d2, Length) == FALSE
IsTooDistant(d2, Length) == 100 * d2 > Sq(Length * DistanceCheckMultiplierTenths)

\* ZDistanceToFootHoldHit < ZDistanceToLineHit, on squares
\* fault variant: every candidate passes for closer than the line hit
IsCloserThanLineHit_Always(d2FootHold, d2Line) == TRUE
IsCloserThanLineHit(d2FootHold, d2Line) == d2FootHold < d2Line

\* the loop over FootHoldHits: the first candidate of least weighted height among
\* those closer than the line hit, or the FHitResult() it starts from
RECURSIVE FootHoldBestHit(_, _, _, _, _)
FootHoldBestHit(hits, a, d2Line, MinZ, best) ==
  IF hits = << >> THEN best
  ELSE LET h == Head(hits)
           CurrentHitZ == Abs(a.z - h.ImpactPoint.z) * h.OneMinusDot
       IN IF IsCloserThanLineHit(Dist2(a, h.ImpactPoint), d2Line) /\ CurrentHitZ < MinZ
          THEN FootHoldBestHit(Tail(hits), a, d2Line, CurrentHitZ, h)
          ELSE FootHoldBestHit(Tail(hits), a, d2Line, MinZ, best)

\* the probes of one leg: [bIsHit, Hit, bSphere (the sphere trace ran)]
ResolveHit(Solver, n, w, LegIndex) ==
  LET a == StartLocationWithoutZOffset(n, w, LegIndex)
      line == LineTraceSingle(w, a)
      basic == [bIsHit |-> line.bIsHit, Hit |-> line.Hit, bSphere |-> FALSE]
  IN IF Solver = "BASIC" THEN basic
     ELSE LET d2Line == Dist2(a, line.Hit.ImpactPoint) IN
          IF ~line.bIsHit \/ IsTooDistant(d2Line, n.LegsData[LegIndex].Length)
          THEN LET hits == SphereTraceMulti(w, a)
                   best == IF Len(hits) > 0
                           THEN FootHoldBestHit(hits, a, d2Line,
                                                (TraceLength + TraceZOffset) * 2, DefaultHit)
                           ELSE DefaultHit
               IN IF best.bBlockingHit
                  THEN [bIsHit |-> TRUE, Hit |-> best, bSphere |-> TRUE]
                  ELSE [basic EXCEPT !.bSphere = TRUE]
          ELSE basic

\* the target of a leg whose probe missed: its original location in world space
\* fault variant: a leg whose probe missed keeps the target it had
MissTarget_Keep(w, d) == d.FootTarget
MissTarget(w, d) == ToWorld(w, d.TipBoneOriginalRelLocation)

\* the leg is unplanted and too far along its step for its target to be updated
\* fault variant: the target of a leg in its swing is updated to the end of the step
IsTargetFixed_Never(n, LegIndex) == FALSE
IsTargetFixed(n, LegIndex) ==
  IsLegUnplanted(n, LegIndex) /\ ~(GetLegStepPercent(n, LegIndex) < FixFeetTargetsAfterPercent)

SetFootTargetLocationAs(Solver, n, w, LegIndex) ==
  LET r == ResolveHit(Solver, n, w, LegIndex)
      d == n.LegsData[LegIndex]
      FootTarget == r.Hit.ImpactPoint
      frozen == IsTargetFixed(n, LegIndex)
  IN [n EXCEPT !.LegsData[LegIndex] =
        IF r.bIsHit
        THEN [d EXCEPT !.FootTarget = IF frozen THEN Pt(@.x + d.SupportCompDelta, @.z)
                                                ELSE FootTarget,
                       !.bEnableIK = TRUE, !.LastHit = r.Hit]
        ELSE [d EXCEPT !.FootTarget = MissTarget(w, d),
                       !.bEnableIK = FALSE, !.LastHit = r.Hit]]

SetFootTargetLocation(n, w, LegIndex) == SetFootTargetLocationAs(cfg.SolverType, n, w, LegIndex)

\* each call reads the group data and writes its own leg only
SetFeetTargetLocations(this, w) ==
  With(this, LAMBDA n :
    [n EXCEPT !.LegsData = [l \in DOMAIN n.LegsData |-> SetFootTargetLocation(n, w, l).LegsData[l]]])

(* ---------------- GaitScheduler: unplant ---------------- *)
\* FVector::Dist(FootLocation, FootTarget) >= MinDistanceToUnplant, on squares
\* fault variant: a foot one unit short of the distance counts as far enough
IsFarEnough_Short(d2) == d2 >= Sq(MinDistanceToUnplant - 1)
IsFarEnough(d2) == d2 >= Sq(MinDistanceToUnplant)

bIsAtLeastOneFootFarEnough(n, GroupIndex) ==
  \E l \in cfg.LegGroups[GroupIndex] :
     IsFarEnough(Dist2(n.LegsData[l].FootLocation, n.LegsData[l].FootTarget))

PreviousGroupIndex(GroupIndex) ==
  IF GroupIndex - 1 < 0 THEN NumGroups - 1 ELSE GroupIndex - 1

\* the previous group lets the current one go: planted, or far enough along its step
\* fault variant: the previous group is not consulted
PreviousGroupAllows_Always(n, GroupIndex) == TRUE
\* fault variant: the previous group must have made a whole step
PreviousGroupAllows_AfterWholeStep(n, GroupIndex) ==
  n.GroupsData[PreviousGroupIndex(GroupIndex)].StepPercent = PctOne
\* fault variant: the previous group is asked for half the sequence percent
PreviousGroupAllows_HalfWay(n, GroupIndex) ==
  LET p == n.GroupsData[PreviousGroupIndex(GroupIndex)] IN
  ~(p.bIsUnplanted /\ 2 * p.StepPercent < cfg.StepSequencePercent)
\* fault variant: the previous group must be past the sequence percent
PreviousGroupAllows_StrictlyPast(n, GroupIndex) ==
  LET p == n.GroupsData[PreviousGroupIndex(GroupIndex)] IN
  ~(p.bIsUnplanted /\ p.StepPercent <= cfg.StepSequencePercent)
PreviousGroupAllows(n, GroupIndex) ==
  LET p == n.GroupsData[PreviousGroupIndex(GroupIndex)] IN
  ~(p.bIsUnplanted /\ p.StepPercent < cfg.StepSequencePercent)

\* fault variant: the unplant anchors of all the legs are taken, not the group's only
UnplantGroup_EveryAnchor(this, w, g) ==
  With(this, LAMBDA n :
    LET n1 == [n EXCEPT !.GroupsData[g].bIsUnplanted = TRUE,
                        !.GroupsData[g].StepPercent = 0,
                        !.LegsData = [l \in DOMAIN n.LegsData |->
                            [n.LegsData[l] EXCEPT !.FootUnplantLocation = n.LegsData[l].FootLocation]]]
        n2 == SetSupportComponentDataAll(n1, w, cfg.LegGroups[g])
    IN SetNextCurrentGroupIndex(CallStepInterfaces(n2, g, FALSE)))
\* lines 538-561: UNPLANT GROUP!
UnplantGroup(this, w, g) ==
  With(this, LAMBDA n :
    LET n1 == [n EXCEPT !.GroupsData[g].bIsUnplanted = TRUE,
                        !.GroupsData[g].StepPercent = 0,
                        !.LegsData = [l \in DOMAIN n.LegsData |->
                            IF l \in cfg.LegGroups[g]
                            THEN [n.LegsData[l] EXCEPT !.FootUnplantLocation = n.LegsData[l].FootLocation]
                            ELSE n.LegsData[l]]]
        n2 == SetSupportComponentDataAll(n1, w, cfg.LegGroups[g])
    IN SetNextCurrentGroupIndex(CallStepInterfaces(n2, g, FALSE)))

WillUnplant(this) ==
  With(this, LAMBDA n :
    /\ ~n.GroupsData[n.CurrentGroupIndex].bIsUnplanted
    /\ bIsAtLeastOneFootFarEnough(n, n.CurrentGroupIndex)
    /\ PreviousGroupAllows(n, n.CurrentGroupIndex))

\* fault variant: the first group that could be unplanted is, designated or not
SetCurrentGroupUnplanted_AnyGroup(this, w) ==
  With(this, LAMBDA n :
    LET ok == {g \in GroupIdx : /\ ~n.GroupsData[g].bIsUnplanted
                                /\ bIsAtLeastOneFootFarEnough(n, g)
                                /\ PreviousGroupAllows(n, g)}
    IN IF ok = {} THEN n
       ELSE UnplantGroup(n, w, CHOOSE g \in ok : \A h \in ok : g <= h))
SetCurrentGroupUnplanted(this, w) ==
  With(this, LAMBDA n :
    IF WillUnplant(n) THEN UnplantGroup(n, w, n.CurrentGroupIndex) ELSE n)

(* ---------------- SwingInterpolator ---------------- *)
\* the response curves are assets: a linear speed curve and a height curve that is
\* 0 at both ends of the step
SpeedCurve(p) == p
HeightCurve(p) == IF 0 < p /\ p < PctOne THEN 1 ELSE 0

\* StepPercent + WorldDeltaSeconds / CurrentStepDuration, clamped to [0, 1]; a zero
\* duration divides to +inf (or NaN at a zero delta), which FMath::Clamp takes to 1
\* fault variant: the increment replaces the percent instead of adding to it
AdvanceStepPercent_NoCarry(p, dt, dur) ==
  IF dur = 0 THEN PctOne ELSE Clamp((dt * PctOne) \div dur, 0, PctOne)
\* fault variant: the percent stops short of the end of the step
AdvanceStepPercent_Stalls(p, dt, dur) ==
  IF dur = 0 THEN PctOne ELSE Clamp(p + (dt * PctOne) \div dur, 0, PctOne - 1)
\* fault variant: the sum is not clamped
AdvanceStepPercent_Unclamped(p, dt, dur) ==
  IF dur = 0 THEN PctOne ELSE p + (dt * PctOne) \div dur
AdvanceStepPercent(p, dt, dur) ==
  IF dur = 0 THEN PctOne ELSE Clamp(p + (dt * PctOne) \div dur, 0, PctOne)

\* fault variant: the feet are computed as on the ground while the pawn falls
ComputeFeet_IgnoresFalling(this, in) ==
  With(this, LAMBDA n :
    LET GroupAfter(g) ==
          IF n.GroupsData[g].bIsUnplanted
          THEN [n.GroupsData[g] EXCEPT !.StepPercent =
                   AdvanceStepPercent(@, n.WorldDeltaSeconds, n.CurrentStepDuration)]
          ELSE n.GroupsData[g]
        LegAfter(l) ==
          LET d == n.LegsData[l]
              g == d.GroupIndex
              sp == GroupAfter(g).StepPercent
          IN IF ~(\E gg \in GroupIdx : l \in cfg.LegGroups[gg]) THEN d
             ELSE IF n.GroupsData[g].bIsUnplanted
             THEN [d EXCEPT !.FootLocation =
                      LET p == Lerp(d.FootUnplantLocation, d.FootTarget, SpeedCurve(sp))
                      IN Pt(p.x, p.z + HeightCurve(sp) * StepHeight),
                    !.FootUnplantLocation = Pt(@.x + d.SupportCompDelta, @.z)]
             ELSE IF 100 * Sq(in.drift) <= Sq(MinDistanceToUnplant * DistanceCheckMultiplierTenths)
             THEN [d EXCEPT !.FootLocation = Pt(@.x + d.SupportCompDelta, @.z)]
             ELSE d
    IN [n EXCEPT !.GroupsData = [g \in DOMAIN n.GroupsData |-> GroupAfter(g)],
                 !.LegsData = [l \in DOMAIN n.LegsData |-> LegAfter(l)]])
\* FootDistanceFromLocation <= MinDistanceToUnplant * DistanceCheckMultiplier, on squares
\* fault variant: the platform carries a planted foot however far its socket is
IsFootNearSocket_Always(drift) == TRUE
IsFootNearSocket(drift) ==
  100 * Sq(drift) <= Sq(MinDistanceToUnplant * DistanceCheckMultiplierTenths)

\* in.drift: how far the tip bone's socket is from the foot location this tick
ComputeFeet(this, in) ==
  With(this, LAMBDA n :
    LET GroupAfter(g) ==
          IF ~n.bIsFalling /\ n.GroupsData[g].bIsUnplanted
          THEN [n.GroupsData[g] EXCEPT !.StepPercent =
                   AdvanceStepPercent(@, n.WorldDeltaSeconds, n.CurrentStepDuration)]
          ELSE n.GroupsData[g]
        LegAfter(l) ==
          LET d == n.LegsData[l]
              g == d.GroupIndex
              sp == GroupAfter(g).StepPercent
          IN IF ~(\E gg \in GroupIdx : l \in cfg.LegGroups[gg]) THEN d
             ELSE IF n.bIsFalling THEN [d EXCEPT !.FootLocation = d.FootTarget]
             ELSE IF n.GroupsData[g].bIsUnplanted
             THEN [d EXCEPT !.FootLocation =
                      LET p == Lerp(d.FootUnplantLocation, d.FootTarget, SpeedCurve(sp))
                      IN Pt(p.x, p.z + HeightCurve(sp) * StepHeight),
                    !.FootUnplantLocation = Pt(@.x + d.SupportCompDelta, @.z)]
             ELSE IF IsFootNearSocket(in.drift)
             THEN [d EXCEPT !.FootLocation = Pt(@.x + d.SupportCompDelta, @.z)]
             ELSE d
    IN [n EXCEPT !.GroupsData = [g \in DOMAIN n.GroupsData |-> GroupAfter(g)],
                 !.LegsData = [l \in DOMAIN n.LegsData |-> LegAfter(l)]])

(* ---------------- GaitScheduler: plant ---------------- *)
\* fault variant: a group is planted from three quarters of its step on
ShouldPlant_Early(grp) == grp.bIsUnplanted /\ 4 * grp.StepPercent >= 3 * PctOne
ShouldPlant(grp) == grp.bIsUnplanted /\ grp.StepPercent = PctOne

\* fault variant: the group is planted without its down tasks
PlantGroup_Silent(this, w, g) ==
  With(this, LAMBDA n :
    LET n1 == SetSupportComponentDataAll(n, w, cfg.LegGroups[g])
    IN [n1 EXCEPT !.GroupsData[g].bIsUnplanted = FALSE])
PlantGroup(this, w, g) ==
  With(this, LAMBDA n :
    LET n1 == SetSupportComponentDataAll(n, w, cfg.LegGroups[g])
    IN CallStepInterfaces([n1 EXCEPT !.GroupsData[g].bIsUnplanted = FALSE], g, TRUE))

RECURSIVE SetGroupsPlantedFrom(_, _, _)
SetGroupsPlantedFrom(this, w, g) ==
  With(this, LAMBDA n :
    IF g >= NumGroups THEN n
    ELSE SetGroupsPlantedFrom(IF ShouldPlant(n.GroupsData[g]) THEN PlantGroup(n, w, g) ELSE n,
                              w, g + 1))

SetGroupsPlanted(n, w) == SetGroupsPlantedFrom(n, w, 0)

(* ---------------- BodyPoseSolver (the part fed back to the MotionSampler) ---------------- *)
\* the sum over legs of a coordinate of InverseTransformLocation(ActorTransform, FootTarget)
RECURSIVE SumTargets(_, _, _, _)
SumTargets(n, w, legs, axis) ==
  IF legs = {} THEN 0
  ELSE LET l == CHOOSE x \in legs : TRUE
           t == n.LegsData[l].FootTarget
       IN (IF axis = "z" THEN t.z - HalfHeight ELSE t.x - w.ActorX)
          + SumTargets(n, w, legs \ {l}, axis)

\* GetVectorArrayAverage of two sets agree on a coordinate (an empty array averages
\* to 0): sums compared after multiplying by the other count
SameAverage(n, w, F, B, axis) ==
  SumTargets(n, w, F, axis) * Max2(Cardinality(B), 1)
    = SumTargets(n, w, B, axis) * Max2(Cardinality(F), 1)

\* PitchFromFeetLocations = DegAtan(dz / dx) of the forward and backward averages
\* is 0 exactly when the averages are level and apart; the multiplier is then 1.
\* Otherwise it is some value of MapRangeClamped(.., 1 - StepSlopeReductionMultiplier, 1):
\* in.slope.
ComputeBodyTransform(this, w, in) ==
  With(this, LAMBDA n :
    LET F == {l \in LegIdx : n.LegsData[l].bIsForward}
        B == {l \in LegIdx : n.LegsData[l].bIsBackwards}
        level == SameAverage(n, w, F, B, "z")
        apart == ~SameAverage(n, w, F, B, "x")
    IN [n EXCEPT !.ReduceSlopeMultiplierPitch = IF level /\ apart THEN 100 ELSE in.slope])

(* ---------------- reset (start of a fall, landing) ---------------- *)
\* fault variant: the unplant anchor is taken from the foot location found
ResetFeetTargetsAndLocations_StaleAnchor(this, w) ==
  With(this, LAMBDA n :
    LET n1 == SetFeetTargetLocations(n, w) IN
    [n1 EXCEPT !.LegsData = [l \in DOMAIN n1.LegsData |->
                   [n1.LegsData[l] EXCEPT
                      !.FootLocation = ToWorld(w, n1.LegsData[l].TipBoneOriginalRelLocation),
                      !.FootUnplantLocation = n.LegsData[l].FootLocation]],
               !.CurrentGroupIndex = 0,
               !.GroupsData = [g \in DOMAIN n1.GroupsData |->
                   [StepPercent |-> 0, bIsUnplanted |-> FALSE]]])
\* fault variant: the reset leaves the groups and the pointer as they are
ResetFeetTargetsAndLocations_FeetOnly(this, w) ==
  With(this, LAMBDA n :
    LET n1 == SetFeetTargetLocations(n, w) IN
    [n1 EXCEPT !.LegsData = [l \in DOMAIN n1.LegsData |->
                   [n1.LegsData[l] EXCEPT
                      !.FootLocation = ToWorld(w, n1.LegsData[l].TipBoneOriginalRelLocation),
                      !.FootUnplantLocation = ToWorld(w, n1.LegsData[l].TipBoneOriginalRelLocation)]]])
ResetFeetTargetsAndLocations(this, w) ==
  With(this, LAMBDA n :
    LET n1 == SetFeetTargetLocations(n, w) IN
    [n1 EXCEPT !.LegsData = [l \in DOMAIN n1.LegsData |->
                   [n1.LegsData[l] EXCEPT
                      !.FootLocation = ToWorld(w, n1.LegsData[l].TipBoneOriginalRelLocation),
                      !.FootUnplantLocation = ToWorld(w, n1.LegsData[l].TipBoneOriginalRelLocation)]],
               !.CurrentGroupIndex = 0,
               !.GroupsData = [g \in DOMAIN n1.GroupsData |->
                   [StepPercent |-> 0, bIsUnplanted |-> FALSE]]])

(* ---------------- the tick ---------------- *)
\* lines 58-121: the feet data, set once after the skipped frames
InitFeetData(this, w) ==
  With(this, LAMBDA n :
    [n EXCEPT !.LegsData = [l \in DOMAIN n.LegsData |->
         LET ParentX == cfg.Legs[l]
             TipBoneRelLocation == Pt(ParentX, 0 - n.OwnerHalfHeight)
         IN [n.LegsData[l] EXCEPT
               !.Length = 0 - TipBoneRelLocation.z,
               !.TipBoneOriginalRelLocation = TipBoneRelLocation,
               !.FootTarget = ToWorld(w, TipBoneRelLocation),
               !.FootLocation = ToWorld(w, TipBoneRelLocation),
               !.bIsForward = (ParentX >= 0),
               !.bIsBackwards = (ParentX <= 0)]],
              !.SkippedFrames = FRAMES_TO_SKIP_ON_INIT + 1,
              !.bIsInitialized = TRUE])

\* lines 123-128: the pawn variables, the support deltas and the feet targets
Targets(this, w, in) ==
  With(this, LAMBDA n :
    SetFeetTargetLocations(SetSupportCompDeltas(UpdatePawnVariables(n, in), w), w))

\* fault variant: both kinds of group transitions are made before the feet are moved
Pipeline_TransitionsFirst(this, w, in) ==
  With(this, LAMBDA n :
    LET n3 == Targets(n, w, in)
    IN IF n3.bIsFalling THEN ComputeFeet(n3, in)
       ELSE ComputeFeet(SetGroupsPlanted(SetCurrentGroupUnplanted(n3, w), w), in))
\* lines 123-141: the pipeline up to the feet
Pipeline(this, w, in) ==
  With(this, LAMBDA n :
    LET n3 == Targets(n, w, in)
    IN IF n3.bIsFalling THEN ComputeFeet(n3, in)
       ELSE SetGroupsPlanted(ComputeFeet(SetCurrentGroupUnplanted(n3, w), in), w))

\* the node as the pipeline finds it on a tick that is not skipped
\* fault variant: the feet data are set again on every tick that is not skipped
Entering_EveryTick(n, w) == InitFeetData(n, w)
Entering(this, w) ==
  With(this, LAMBDA n :
    IF n.SkippedFrames = FRAMES_TO_SKIP_ON_INIT THEN InitFeetData(n, w) ELSE n)

Evaluate_Computations(this, w, in) ==
  With(this, LAMBDA n :
    IF n.SkippedFrames < FRAMES_TO_SKIP_ON_INIT
    THEN [n EXCEPT !.SkippedFrames = @ + 1]
    ELSE ComputeBodyTransform(Pipeline(Entering(n, w), w, in), w, in))

\* fault variant: a landing clears the flag and notifies, without the reset
FallingEvents_NoResetOnLanding(this, w) ==
  With(this, LAMBDA n :
    IF ~n.bIsInitialized THEN n
    ELSE IF ~w.MovementBase
         THEN (IF ~n.bIsFalling
               THEN [ResetFeetTargetsAndLocations(n, w) EXCEPT !.bIsFalling = TRUE]
               ELSE n)
         ELSE (IF n.bIsFalling
               THEN CallLandedInterfaces([n EXCEPT !.bIsFalling = FALSE], w)
               ELSE n))
\* lines 276-306: the falling events
FallingEvents(this, w) ==
  With(this, LAMBDA n :
    IF ~n.bIsInitialized THEN n
    ELSE IF ~w.MovementBase
         THEN (IF ~n.bIsFalling
               THEN [ResetFeetTargetsAndLocations(n, w) EXCEPT !.bIsFalling = TRUE]
               ELSE n)
         ELSE (IF n.bIsFalling
               THEN CallLandedInterfaces(
                      ResetFeetTargetsAndLocations([n EXCEPT !.bIsFalling = FALSE], w), w)
               ELSE n))

EvaluateSkeletalControl_AnyThread(this, w, in) ==
  With(this, LAMBDA n :
    IF n.bIsPlaying THEN Evaluate_Computations(FallingEvents(n, w), w, in)
    ELSE n)

\* the bones and the mesh component are valid in every rig of the model
IsValidToEvaluate(n) ==
  IF cfg.Precision <= 0 THEN FALSE
  ELSE IF n.bHasErrors THEN FALSE
  ELSE TRUE

(* ---------------- setup ---------------- *)
DefaultLegData ==
  [GroupIndex |-> 0, Length |-> 0, TipBoneOriginalRelLocation |-> ZeroVector,
   FootTarget |-> ZeroVector, FootLocation |-> ZeroVector, FootUnplantLocation |-> ZeroVector,
   bIsForward |-> FALSE, bIsBackwards |-> FALSE, bEnableIK |-> FALSE,
   SupportComp |-> "None", SupportCompPreviousTransform |-> 0, SupportCompDelta |-> 0,
   LastHit |-> DefaultHit]

Initialize_Computations(n) ==
  [n EXCEPT !.LegsData = [l \in LegIdx |->
                [DefaultLegData EXCEPT !.GroupIndex =
                   IF \E g \in GroupIdx : l \in cfg.LegGroups[g]
                   THEN CHOOSE g \in GroupIdx :
                          /\ l \in cfg.LegGroups[g]
                          /\ \A h \in GroupIdx : l \in cfg.LegGroups[h] => h <= g
                   ELSE 0]],
            !.GroupsData = [g \in GroupIdx |-> [StepPercent |-> 0, bIsUnplanted |-> FALSE]]]

ConstructedNode ==
  [bIsPlaying |-> FALSE, bIsEditorAnimPreview |-> FALSE, bHasErrors |-> FALSE,
   bIsInitialized |-> FALSE, bIsFalling |-> FALSE, SkippedFrames |-> 0,
   OwnerHalfHeight |-> 0, CurrentGroupIndex |-> 0,
   GroupsData |-> << >>, LegsData |-> << >>,
   Speed |-> 0, ForwardPercent |-> 0, YawDelta |-> 0,
   CurrentStepLength |-> 0, CurrentStepDuration |-> 0, WorldDeltaSeconds |-> 0,
   ReduceSlopeMultiplierPitch |-> 100, AsyncTasks |-> << >>]

\* lines 216-256 for a playing world.  Line 239 reads the location and the up vector
\* through OwnerPawn whether or not the cast succeeded.
InitializePlaying(n, w) ==
  LET n1 == [n EXCEPT !.bIsPlaying = TRUE, !.bIsEditorAnimPreview = FALSE,
                      !.bHasErrors = @ \/ ~w.OwnerIsPawn \/ NumLegs = 0 \/ NumGroups = 0,
                      !.OwnerHalfHeight = HalfHeight]
  IN IF NumLegs > 0 /\ NumGroups > 0 THEN Initialize_Computations(n1) ELSE n1

\* OwnerPawn is dereferenced at line 239 while it is not valid
DereferencesInvalidOwner(w, playing) == playing /\ ~w.OwnerIsPawn

\* the outcomes of the reads at line 239: they succeed on a valid pawn; through a
\* null pawn they are undefined behaviour, a fault or a garbage half height
SetupOutcomes(w, playing) ==
  IF DereferencesInvalidOwner(w, playing)
  THEN { [crash |-> TRUE, hh |-> 0], [crash |-> FALSE, hh |-> 0],
         [crash |-> FALSE, hh |-> HalfHeight] }
  ELSE { [crash |-> FALSE, hh |-> HalfHeight] }

Initialize_AnyThread ==
  /\ pc = "constructed"
  /\ \E playing \in BOOLEAN : \E o \in SetupOutcomes(world, playing) :
       /\ pc' = IF o.crash THEN "crashed" ELSE "running"
       /\ node' = IF ~playing
                  THEN [node EXCEPT !.bIsPlaying = FALSE,
                                    !.bIsEditorAnimPreview = ~world.OwnerIsPawn]
                  ELSE IF o.crash
                  THEN [node EXCEPT !.bIsPlaying = TRUE, !.bHasErrors = TRUE]
                  ELSE [InitializePlaying(node, world) EXCEPT !.OwnerHalfHeight = o.hh]
  /\ tk' = [kind |-> "setup", reset |-> FALSE, far |-> FALSE, up |-> {}, swing |-> {}]
  /\ UNCHANGED <<scope, cfg, world, game>>

(* ---------------- a tick: UpdateInternal, then the evaluation if it is valid ---------------- *)
TickKind(n, w) ==
  IF ~IsValidToEvaluate(n) THEN "invalid"
  ELSE IF ~n.bIsPlaying THEN "editor"
  ELSE IF n.SkippedFrames < FRAMES_TO_SKIP_ON_INIT THEN "skipped"
  ELSE "run"

\* what a tick did, kept for the properties: whether the falling events reset the
\* feet, whether some leg has ever been measured at the unplant distance or more
\* from its target when the scheduler ran, the groups whose latest group task is
\* an up (up), and those among them with no reset since that task (swing)
DoesReset(n, w) == n.bIsInitialized /\ n.bIsFalling = w.MovementBase
SomeLegFar(this, w, in) ==
  With(this, LAMBDA n :
    LET n3 == Targets(Entering(FallingEvents(n, w), w), w, in)
    IN \E l \in DOMAIN n3.LegsData :
          Dist2(n3.LegsData[l].FootLocation, n3.LegsData[l].FootTarget)
            >= MinDistanceToUnplant * MinDistanceToUnplant)

\* the groups whose latest group task is OnGroupUp, after the tasks of a tick
RECURSIVE LastUp(_, _)
LastUp(tasks, up) ==
  IF tasks = << >> THEN up
  ELSE LET t == Head(tasks)
       IN LastUp(Tail(tasks),
                 IF t.Name = "OnGroupUp" THEN up \cup {t.Index}
                 ELSE IF t.Name = "OnGroupDown" THEN up \ {t.Index}
                 ELSE up)

\* the game thread: the tasks AsyncTask(ENamedThreads::GameThread, ...) has queued
\* and the call the last task it ran made.  The queue is followed in the scope
\* "async", with at most MaxPending tasks waiting.
NoTask == Task("None", 0, ZeroVector)
IdleGame == [queue |-> << >>, delivered |-> NoTask, payload |-> ZeroVector]
Enqueue(g, tasks) == [g EXCEPT !.queue = @ \o tasks]

Tick ==
  /\ pc = "running"
  /\ \E dt \in DtsOf(scope), m \in MotionsOf(scope), ax \in ActorXsOf(scope),
        px \in PlatformXsOf(scope), base \in BOOLEAN, drift \in TipDriftsOf(scope),
        slope \in SlopeMultsOf(scope) :
       LET w == [world EXCEPT !.ActorX = ax, !.PlatformX = px, !.MovementBase = base]
           in == [v |-> m.v, yaw |-> m.yaw, drift |-> drift, slope |-> slope]
           n0 == [node EXCEPT !.WorldDeltaSeconds = dt, !.AsyncTasks = << >>]
       IN \E n1 \in { IF IsValidToEvaluate(n0)
                      THEN EvaluateSkeletalControl_AnyThread(n0, w, in)
                      ELSE n0 } :
          /\ world' = w
          /\ node' = n1
          /\ scope = "async" => Len(game.queue) + Len(n1.AsyncTasks) <= MaxPending
          /\ game' = IF scope = "async" THEN Enqueue(game, n1.AsyncTasks) ELSE game
          /\ tk' = [kind |-> TickKind(n0, w),
                    reset |-> TickKind(n0, w) = "run" /\ DoesReset(n0, w),
                    far |-> tk.far \/ (TickKind(n0, w) = "run" /\ SomeLegFar(n0, w, in)),
                    up |-> LastUp(n1.AsyncTasks, tk.up),
                    swing |-> LastUp(n1.AsyncTasks,
                                     IF TickKind(n0, w) = "run" /\ DoesReset(n0, w)
                                     THEN {} ELSE tk.swing)]
  /\ UNCHANGED <<pc, scope, cfg>>

\* the game thread runs its oldest task.  The lambdas of OnGroupUp/Down and of
\* OnPawnLanded pass the location they captured; those of OnFootUp/Down read
\* LegsData[LegIndex].FootLocation through the captured node as they run.
DeliveredLocation(n, t) ==
  IF t.Name \in FootTaskNames THEN n.LegsData[t.Index].FootLocation ELSE t.Location
Deliver ==
  /\ game.queue # << >>
  /\ game' = [queue |-> Tail(game.queue), delivered |-> Head(game.queue),
              payload |-> DeliveredLocation(node, Head(game.queue))]
  /\ UNCHANGED <<pc, scope, cfg, node, world, tk>>

(* ---------------- the specifications ---------------- *)
FlatTerrain == [here |-> "Flat", ahead |-> "Flat"]
Cfg(r, st, o, prec) ==
  [Legs |-> r.Legs, LegGroups |-> r.LegGroups, SolverType |-> st,
   StepSequencePercent |-> o, Precision |-> prec]
Overlaps == {PctOne \div 2, PctOne}

\* configurations that setup or the validity check reject, on flat ground
ErrCfgs == { Cfg(r, "ADVANCED", PctOne, 1) : r \in BadRigs } \cup { Cfg(TwoGroups, "BASIC", PctOne, 0) }
InitErr ==
  /\ cfg \in ErrCfgs \cup { Cfg(TwoGroups, "BASIC", PctOne, 1) }
  /\ world \in { [OwnerIsPawn |-> p, Terrain |-> FlatTerrain, ActorX |-> 0, PlatformX |-> 0,
                  MovementBase |-> TRUE] : p \in BOOLEAN }
  /\ cfg \notin ErrCfgs => ~world.OwnerIsPawn

InitGood(cfgs, terrains) ==
  /\ cfg \in cfgs
  /\ world \in { [OwnerIsPawn |-> TRUE, Terrain |-> t, ActorX |-> 0, PlatformX |-> 0,
                  MovementBase |-> TRUE] : t \in terrains }

InitCommon(sc) ==
  /\ pc = "constructed"
  /\ scope = sc
  /\ node = ConstructedNode
  /\ tk = [kind |-> "none", reset |-> FALSE, far |-> FALSE, up |-> {}, swing |-> {}]
  /\ game = IdleGame

Next == Initialize_AnyThread \/ Tick

\* the gait on flat ground: two and three groups with both overlap fractions and
\* the actor in place, one group with the actor displaced by less than, and by
\* exactly, the unplant distance; and the configurations that setup rejects
Init ==
  \/ /\ InitCommon("gait")
     /\ \/ InitGood({ Cfg(r, "BASIC", o, 1) : r \in {TwoGroups, ThreeGroups}, o \in Overlaps },
                    {FlatTerrain})
        \/ InitErr
  \/ /\ InitCommon("near")
     /\ InitGood({ Cfg(OneGroup, "BASIC", PctOne, 1) }, {FlatTerrain})
Spec == Init /\ [][Next]_vars

\* the probes: two legs over every terrain, both solvers
InitProbe ==
  /\ InitCommon("probe")
  /\ InitGood({ Cfg(OneGroup, st, PctOne, 1) : st \in {"BASIC", "ADVANCED"} },
              {t \in Terrains : "Platform" \notin Range(t)})
SpecProbe == InitProbe /\ [][Next]_vars

\* the motion sampler: one group on flat ground, every motion and tick time
InitMotion ==
  /\ InitCommon("motion")
  /\ InitGood({ Cfg(OneGroup, "BASIC", PctOne, 1) }, {FlatTerrain})
SpecMotion == InitMotion /\ [][Next]_vars

\* the gait while the animation graph keeps evaluating the node: every tick has a
\* positive tick time and the step duration is positive (scope "gait"), and the
\* engine does not stop ticking a node that is playing
InitLive ==
  /\ InitCommon("gait")
  /\ InitGood({ Cfg(r, "BASIC", o, 1) : r \in {TwoGroups, ThreeGroups}, o \in Overlaps },
              {FlatTerrain})
SpecLive == InitLive /\ [][Next]_vars /\ WF_vars(Tick)

\* overlapping gaits: two and three groups, a group let go after a quarter, after
\* half and at the end of the step of the group before it
InitOverlap ==
  /\ InitCommon("gait")
  /\ InitGood({ Cfg(r, "BASIC", o, 1) : r \in {TwoGroups, ThreeGroups},
                                        o \in Overlaps \cup {PctOne \div 4} },
              {FlatTerrain})
SpecOverlap == InitOverlap /\ [][Next]_vars

\* a single group of two legs walking on flat ground under either solver,
\* evaluated every frame
InitSolo ==
  /\ InitCommon("gait")
  /\ InitGood({ Cfg(OneGroup, st, o, 1) : st \in {"BASIC", "ADVANCED"}, o \in Overlaps },
              {FlatTerrain})
SpecSolo == InitSolo /\ [][Next]_vars /\ WF_vars(Tick)

\* the moving platform: one group of two legs on a platform that moves under the
\* feet, nothing to hit ahead of it, the planted feet within and beyond the
\* tolerance of their sockets
InitPlatform ==
  /\ InitCommon("platform")
  /\ InitGood({ Cfg(OneGroup, "BASIC", PctOne, 1) }, { [here |-> "Platform", ahead |-> "Void"] })
SpecPlatform == InitPlatform /\ [][Next]_vars

\* the game thread: one group of two legs on flat ground, the actor displaced by
\* the unplant distance, and the queued tasks run between the ticks
NextAsync == Initialize_AnyThread \/ Tick \/ Deliver
InitAsync ==
  /\ InitCommon("async")
  /\ InitGood({ Cfg(OneGroup, "BASIC", PctOne, 1) }, {FlatTerrain})
SpecAsync == InitAsync /\ [][NextAsync]_vars

(* ---------------- properties ---------------- *)
Groups(n) == DOMAIN n.GroupsData
Legs(n) == DOMAIN n.LegsData
\* the tasks a tick handed to the game thread
HasTask(n, name, i) ==
  \E k \in DOMAIN n.AsyncTasks : n.AsyncTasks[k].Name = name /\ n.AsyncTasks[k].Index = i
StepTaskNames == {"OnFootUp", "OnFootDown", "OnGroupUp", "OnGroupDown"}
HasStepTask(n) == \E k \in DOMAIN n.AsyncTasks : n.AsyncTasks[k].Name \in StepTaskNames

\* C1 as stated: over every tick a group's StepPercent does not decrease while the
\* group stays unplanted, and a tick that takes a StepPercent to 0 is one in which
\* that group goes from planted to unplanted.
C1_ZeroOnlyAtUnplant ==
  [][\A g \in Groups(node) \cap Groups(node') :
       LET a == node.GroupsData[g]
           b == node'.GroupsData[g]
       IN /\ (a.bIsUnplanted /\ b.bIsUnplanted) => b.StepPercent >= a.StepPercent
          /\ (a.StepPercent # 0 /\ b.StepPercent = 0) => (~a.bIsUnplanted /\ b.bIsUnplanted)]_vars

\* C1, amended: over every tick a group's StepPercent does not decrease while the
\* group stays unplanted, and a tick that takes a StepPercent to 0 is one in which
\* that group goes from planted to unplanted or one in which the falling events
\* reset the feet (ResetFeetTargetsAndLocations writes 0 into every group).
C1_ZeroAtUnplantOrReset ==
  [][\A g \in Groups(node) \cap Groups(node') :
       LET a == node.GroupsData[g]
           b == node'.GroupsData[g]
       IN /\ (a.bIsUnplanted /\ b.bIsUnplanted) => b.StepPercent >= a.StepPercent
          /\ (a.StepPercent # 0 /\ b.StepPercent = 0)
               => (~a.bIsUnplanted /\ b.bIsUnplanted) \/ tk'.reset]_vars

\* a group in mid swing on the tick of a landing: reset to 0, unplanted and advanced
C1_Witness ==
  /\ tk.reset
  /\ \E g \in Groups(node) :
        node.GroupsData[g].bIsUnplanted /\ node.GroupsData[g].StepPercent \in 1..(PctOne - 1)

\* group g is unplanted by the step: its up task is handed over, or it is planted
\* before and unplanted after
Unplants(g) ==
  \/ HasTask(node', "OnGroupUp", g)
  \/ /\ g \in Groups(node) \cap Groups(node')
     /\ ~node.GroupsData[g].bIsUnplanted /\ node'.GroupsData[g].bIsUnplanted
PointerInRange == 0 <= node.CurrentGroupIndex /\ node.CurrentGroupIndex < NumGroups
\* an unplant takes the pointer from the unplanted group (where the tick, after a
\* reset if it made one, found it) to the next group in the cycle
PointerMoves ==
  \A g \in GroupIdx :
     Unplants(g) => /\ g = (IF tk'.reset THEN 0 ELSE node.CurrentGroupIndex)
                    /\ node'.CurrentGroupIndex = (g + 1) % NumGroups

\* C2 as stated: in every reachable state 0 <= CurrentGroupIndex < number of groups,
\* the pointer starts at group 0, and every unplant moves it from g to (g + 1) mod
\* the number of groups.
C2_PointerAlwaysDesignatesGroup ==
  /\ []PointerInRange
  /\ [](pc = "constructed" => node.CurrentGroupIndex = 0)
  /\ [][PointerMoves]_vars

\* C2, amended: in every reachable state of a controller configured with at least
\* one group 0 <= CurrentGroupIndex < number of groups; the pointer starts at
\* group 0; every unplant moves it from g to (g + 1) mod the number of groups.
C2_PointerDesignatesGroupIfAny ==
  /\ [](NumGroups > 0 => PointerInRange)
  /\ [](pc = "constructed" => node.CurrentGroupIndex = 0)
  /\ [][PointerMoves]_vars

\* the last of three groups has just been unplanted and the pointer wrapped to 0
C2_Witness ==
  /\ NumGroups = 3
  /\ HasTask(node, "OnGroupUp", 2)
  /\ node.GroupsData[2].bIsUnplanted
  /\ node.CurrentGroupIndex = 0

Sequential == cfg.StepSequencePercent = PctOne
UnplantedGroups(n) == {g \in Groups(n) : n.GroupsData[g].bIsUnplanted}
\* the group before g in the cycle is in its swing, short of the end of its step
PredecessorInSwing(n, g) ==
  LET p == n.GroupsData[(g + NumGroups - 1) % NumGroups]
  IN p.bIsUnplanted /\ p.StepPercent < PctOne

\* C3: with StepSequencePercent = 1.0 no group is unplanted by a tick that found
\* the group before it unplanted with StepPercent < 1.0; at every tick boundary at
\* most one group is unplanted; and group 1 is not unplanted while group 0 is still
\* unplanted.
C3_SequentialGait ==
  /\ [](Sequential => Cardinality(UnplantedGroups(node)) <= 1)
  /\ [][Sequential =>
          \A g \in GroupIdx : Unplants(g) => ~PredecessorInSwing(node, g)]_vars
  /\ [][(Sequential /\ NumGroups >= 2 /\ Unplants(1))
          => ~node.GroupsData[0].bIsUnplanted]_vars

\* group 1 in its swing after group 0 has made its step and is planted again
C3_Witness ==
  /\ Sequential /\ NumGroups >= 2
  /\ HasTask(node, "OnGroupUp", 1)
  /\ node.GroupsData[1].bIsUnplanted /\ node.GroupsData[1].StepPercent < PctOne
  /\ ~node.GroupsData[0].bIsUnplanted /\ node.GroupsData[0].StepPercent = PctOne

\* C4: as long as no leg has been measured at MinDistanceToUnplant or more from its
\* target on any evaluated tick, every group is planted with the StepPercent 0 it
\* started with, the pointer is at group 0 and the tick handed over no foot or
\* group up/down task.
C4_AtRestNothingMoves ==
  (pc = "running" /\ ~tk.far) =>
     /\ \A g \in Groups(node) :
          ~node.GroupsData[g].bIsUnplanted /\ node.GroupsData[g].StepPercent = 0
     /\ node.CurrentGroupIndex = 0
     /\ ~HasStepTask(node)

\* the pipeline has run on solid ground with a foot short of the unplant distance
\* from its target, and no leg has ever been far
C4_Witness ==
  /\ tk.kind = "run" /\ ~tk.far /\ ~node.bIsFalling /\ ~tk.reset
  /\ \E l \in Legs(node) :
        Dist2(node.LegsData[l].FootLocation, node.LegsData[l].FootTarget) > 0

\* what the reset is compared on: foot locations, unplant anchors, group states, pointer
ResetView(n) ==
  [FootLocation |-> [l \in Legs(n) |-> n.LegsData[l].FootLocation],
   FootUnplantLocation |-> [l \in Legs(n) |-> n.LegsData[l].FootUnplantLocation],
   GroupsData |-> n.GroupsData,
   CurrentGroupIndex |-> n.CurrentGroupIndex]

\* C5: from every reachable state and for every body transform, with the same probe
\* results and no time elapsed, ResetFeetTargetsAndLocations applied twice gives
\* the same foot locations, unplant anchors, group states and pointer as applied once.
C5_ResetIdempotent ==
  pc = "running" =>
    \A ax \in ActorXsOf(scope) :
       LET w == [world EXCEPT !.ActorX = ax]
           once == ResetFeetTargetsAndLocations(node, w)
       IN ResetView(ResetFeetTargetsAndLocations(once, w)) = ResetView(once)

\* a fall has just started after the feet had walked: the tick reset them
C5_Witness == tk.reset /\ tk.far /\ node.bIsFalling /\ node.LegsData # << >>

\* the probes of leg l under world w, read apart from the solver: the ray, whether
\* its hit is farther than Length * DistanceCheckMultiplier, the candidates of the
\* volume search and whether none of them is closer to the anchor than the ray hit
ProbeFacts(n, w, l) ==
  LET a == StartLocationWithoutZOffset(n, w, l)
      line == LineTraceSingle(w, a)
      d2 == Dist2(a, line.Hit.ImpactPoint)
      cands == SphereTraceMulti(w, a)
  IN [bRayHit |-> line.bIsHit,
      RayHit |-> line.Hit,
      bTooDistant |-> 100 * d2 > Sq(n.LegsData[l].Length * DistanceCheckMultiplierTenths),
      Candidates |-> cands,
      bNoneCloser |-> \A k \in DOMAIN cands : Dist2(a, cands[k].ImpactPoint) >= d2]

\* C6: for the same leg and group state and the same probe segment, whenever the
\* ray hits and the volume search is not triggered, returns no candidate, or returns
\* no candidate closer than the ray hit, the advanced solver leaves the leg with the
\* same FootTarget and bEnableIK as the basic solver.
C6_AdvancedKeepsRayResult ==
  pc = "running" =>
    \A l \in Legs(node), ax \in ActorXsOf(scope) :
       LET w == [world EXCEPT !.ActorX = ax]
           f == ProbeFacts(node, w, l)
           adv == SetFootTargetLocationAs("ADVANCED", node, w, l).LegsData[l]
           bas == SetFootTargetLocationAs("BASIC", node, w, l).LegsData[l]
       IN (f.bRayHit /\ (~f.bTooDistant \/ f.Candidates = << >> \/ f.bNoneCloser))
            => (adv.FootTarget = bas.FootTarget /\ adv.bEnableIK = bas.bEnableIK)

\* the advanced solver has just resolved a leg whose ray hit was too distant and
\* whose volume search returned candidates, none closer: the leg holds the ray hit
C6_Witness ==
  /\ cfg.SolverType = "ADVANCED" /\ tk.kind = "run"
  /\ \E l \in Legs(node) :
        LET f == ProbeFacts(node, world, l)
        IN /\ f.bRayHit /\ f.bTooDistant /\ f.Candidates # << >> /\ f.bNoneCloser
           /\ node.LegsData[l].LastHit = f.RayHit
           /\ node.LegsData[l].bEnableIK

\* the leg's authored resting position in world space under the current body transform
RestInWorld(l) == ToWorld(world, node.LegsData[l].TipBoneOriginalRelLocation)
\* the solver configured ended the last tick's probes of leg l with a hit
ResolvedHit(l) == ResolveHit(cfg.SolverType, node, world, l).bIsHit

\* C7 as stated: after every evaluated tick, a leg whose ray probe missed has
\* bEnableIK = false and its FootTarget at its resting position in world space,
\* under either solver; a leg with a resolved hit has bEnableIK = true.
C7_RayMissDisablesIK ==
  tk.kind = "run" =>
    \A l \in Legs(node) :
       /\ ~ProbeFacts(node, world, l).bRayHit
            => (~node.LegsData[l].bEnableIK /\ node.LegsData[l].FootTarget = RestInWorld(l))
       /\ ResolvedHit(l) => node.LegsData[l].bEnableIK

\* C7, amended: after every evaluated tick, a leg for which the configured solver
\* resolved no hit (the ray missed and, in advanced mode, the volume search chose no
\* foothold) has bEnableIK = false and its FootTarget at its resting position in
\* world space; a leg with a resolved hit has bEnableIK = true.
C7_NoResolvedHitDisablesIK ==
  tk.kind = "run" =>
    \A l \in Legs(node) :
       /\ ~ResolvedHit(l)
            => (~node.LegsData[l].bEnableIK /\ node.LegsData[l].FootTarget = RestInWorld(l))
       /\ ResolvedHit(l) => node.LegsData[l].bEnableIK

\* the advanced solver over a void with a ledge: the ray missed under two legs, one
\* is left without a hit at its resting position, the other took the foothold
C7_Witness ==
  /\ cfg.SolverType = "ADVANCED" /\ tk.kind = "run"
  /\ \E l \in Legs(node) :
        /\ ~ProbeFacts(node, world, l).bRayHit /\ ~ResolvedHit(l)
        /\ ~node.LegsData[l].bEnableIK /\ node.LegsData[l].FootTarget = RestInWorld(l)
  /\ \E l \in Legs(node) :
        /\ ~ProbeFacts(node, world, l).bRayHit /\ ResolvedHit(l)
        /\ node.LegsData[l].bEnableIK

\* C8: after every evaluated tick, if Speed + |YawDelta| is at most the threshold
\* then CurrentStepDuration is MinStepDuration whatever CurrentStepLength is, and
\* otherwise it is CurrentStepLength / (Speed + |YawDelta|) (in whole milliseconds).
C8_StepDuration ==
  tk.kind = "run" =>
    LET s == node.Speed + Abs(node.YawDelta)
        d == node.CurrentStepDuration
    IN IF s <= MinSpeedWithAngular
       THEN d = MinStepDurationMs
       ELSE d * s <= node.CurrentStepLength * 1000 /\ node.CurrentStepLength * 1000 < (d + 1) * s

\* the motion is exactly at the threshold with a step length that would divide to
\* another duration
C8_Witness ==
  /\ tk.kind = "run"
  /\ node.Speed + Abs(node.YawDelta) = MinSpeedWithAngular
  /\ node.CurrentStepLength > 0
  /\ node.CurrentStepDuration = MinStepDurationMs
  /\ (node.CurrentStepLength * 1000) \div MinSpeedWithAngular # MinStepDurationMs

\* what setup flags in a playing world: the owner is not a pawn, no legs, no groups
ConfigError == ~world.OwnerIsPawn \/ NumLegs = 0 \/ NumGroups = 0
NeverEvaluated == tk.kind \in {"setup", "invalid"}

\* C9: setup never crashes; once setup has found a configuration error in a
\* playing world the node has bHasErrors set in every later state, the validity
\* check is false and no tick is evaluated; with a non-positive Precision the
\* validity check is false and no tick is evaluated.
C9_ConfigErrorFailsSafe ==
  /\ pc # "crashed"
  /\ (pc = "running" /\ node.bIsPlaying /\ ConfigError)
       => (node.bHasErrors /\ ~IsValidToEvaluate(node) /\ NeverEvaluated)
  /\ (pc = "running" /\ cfg.Precision <= 0)
       => (~IsValidToEvaluate(node) /\ NeverEvaluated)

\* a rig without groups after setup and a tick: flagged, and the tick was not evaluated
C9_Witness ==
  /\ pc = "running" /\ node.bIsPlaying /\ NumGroups = 0
  /\ node.bHasErrors /\ tk.kind = "invalid"

\* the target the configured solver resolves for leg l of a planted group
FreshTarget(n, w, l) ==
  LET r == ResolveHit(cfg.SolverType, n, w, l)
  IN IF r.bIsHit THEN r.Hit.ImpactPoint
     ELSE ToWorld(w, n.LegsData[l].TipBoneOriginalRelLocation)

\* C10: a tick that runs the pipeline with bIsFalling set leaves every group's
\* bIsUnplanted and StepPercent and the pointer as it found them (as the reset of
\* that tick left them, on the tick the fall starts: all planted at 0, pointer 0),
\* hands over no foot or group up/down task, and ends with every leg's
\* FootLocation equal to its FootTarget, the target resolved on that tick.
C10_FallingBypassesGait ==
  [][(tk'.kind = "run" /\ node'.bIsFalling) =>
       /\ node'.GroupsData =
            (IF tk'.reset
             THEN [g \in Groups(node) |-> [StepPercent |-> 0, bIsUnplanted |-> FALSE]]
             ELSE node.GroupsData)
       /\ node'.CurrentGroupIndex = (IF tk'.reset THEN 0 ELSE node.CurrentGroupIndex)
       /\ ~HasStepTask(node')
       /\ \A l \in Legs(node') :
            /\ node'.LegsData[l].FootLocation = node'.LegsData[l].FootTarget
            /\ node'.LegsData[l].FootTarget = FreshTarget(node', world', l)]_vars

\* in the middle of a fall, with the pawn moving and the feet once far from their
\* targets: the groups are planted and the feet are on their targets
C10_Witness ==
  /\ tk.kind = "run" /\ node.bIsFalling /\ ~tk.reset /\ tk.far
  /\ node.Speed > 0
  /\ \A l \in Legs(node) : node.LegsData[l].FootLocation = node.LegsData[l].FootTarget

\* the step is a tick that detects a landing: the pawn was falling and now has a base
Lands == node.bIsFalling /\ world'.MovementBase /\ tk'.kind = "run"

\* C11: on the tick that detects a landing, the node the pipeline of that tick
\* starts from has every group planted with StepPercent 0, the pointer at group 0,
\* every leg's FootLocation and FootUnplantLocation at its resting position in
\* world space, and every leg's FootTarget at the result of a probe made on that
\* tick.
C11_LandingResets ==
  [][Lands =>
       LET m == FallingEvents(node, world')
       IN /\ ~m.bIsFalling
          /\ \A g \in Groups(m) :
               ~m.GroupsData[g].bIsUnplanted /\ m.GroupsData[g].StepPercent = 0
          /\ m.CurrentGroupIndex = 0
          /\ \A l \in Legs(m) :
               LET rest == ToWorld(world', m.LegsData[l].TipBoneOriginalRelLocation)
               IN /\ m.LegsData[l].FootLocation = rest
                  /\ m.LegsData[l].FootUnplantLocation = rest
                  /\ m.LegsData[l].FootTarget = FreshTarget(m, world', l)]_vars

\* a landing has just been detected after the feet had walked, with the body away
\* from where it was set up
C11_Witness ==
  /\ tk.kind = "run" /\ tk.reset /\ tk.far /\ ~node.bIsFalling
  /\ HasTask(node, "OnPawnLanded", 0)
  /\ world.ActorX # 0

\* how many of the tick's tasks are the task name for index i
CountTask(n, name, i) ==
  Cardinality({k \in DOMAIN n.AsyncTasks :
                 n.AsyncTasks[k].Name = name /\ n.AsyncTasks[k].Index = i})
\* one group task and one foot task per leg of group g
DispatchedOnce(n, g, group, foot) ==
  /\ CountTask(n, group, g) = 1
  /\ \A l \in cfg.LegGroups[g] : CountTask(n, foot, l) = 1
\* the group tasks in order: an up only for a group whose latest is not an up, a
\* down only for a group whose latest is an up
RECURSIVE Alternates(_, _)
Alternates(tasks, up) ==
  IF tasks = << >> THEN TRUE
  ELSE LET t == Head(tasks)
       IN /\ t.Name = "OnGroupUp" => t.Index \notin up
          /\ t.Name = "OnGroupDown" => t.Index \in up
          /\ Alternates(Tail(tasks), LastUp(<< t >>, up))

\* C12 as stated: every tick that takes a group's bIsUnplanted from false to true
\* hands over one OnGroupUp for it and one OnFootUp per leg of it, every tick that
\* takes it from true to false one OnGroupDown and one OnFootDown per leg; and the
\* group tasks of each group alternate, starting with up.
C12_EveryChangeDispatches ==
  [][/\ \A g \in Groups(node) \cap Groups(node') :
          LET a == node.GroupsData[g].bIsUnplanted
              b == node'.GroupsData[g].bIsUnplanted
          IN /\ (~a /\ b) => DispatchedOnce(node', g, "OnGroupUp", "OnFootUp")
             /\ (a /\ ~b) => DispatchedOnce(node', g, "OnGroupDown", "OnFootDown")
     /\ Alternates(node'.AsyncTasks, tk.up)]_vars

\* C12, amended: every tick that takes a group's bIsUnplanted from false to true
\* hands over one OnGroupUp for it and one OnFootUp per leg of it; every tick that
\* takes it from true to false without resetting the feet hands over one
\* OnGroupDown and one OnFootDown per leg (the reset plants every group without a
\* task); the group tasks of each group alternate, starting with up, from the
\* start and anew from each reset.
C12_SchedulerChangesDispatch ==
  [][/\ \A g \in Groups(node) \cap Groups(node') :
          LET a == node.GroupsData[g].bIsUnplanted
              b == node'.GroupsData[g].bIsUnplanted
          IN /\ (~a /\ b) => DispatchedOnce(node', g, "OnGroupUp", "OnFootUp")
             /\ (a /\ ~b /\ ~tk'.reset) => DispatchedOnce(node', g, "OnGroupDown", "OnFootDown")
     /\ Alternates(node'.AsyncTasks, IF tk'.reset THEN {} ELSE tk.swing)]_vars

\* a group has just been planted by the scheduler after its swing, with its down
\* tasks, while another group's latest task is an up
C12_Witness ==
  /\ tk.kind = "run" /\ ~tk.reset
  /\ \E g \in Groups(node) :
        /\ ~node.GroupsData[g].bIsUnplanted /\ node.GroupsData[g].StepPercent = PctOne
        /\ DispatchedOnce(node, g, "OnGroupDown", "OnFootDown")
        /\ g \notin tk.swing
  /\ tk.swing # {}

\* C13 as stated: the location a deferred notification delivers is the location
\* at the instant of its dispatch, whatever ticks ran between the dispatch and the
\* delivery.
C13_DeliversDispatchValue ==
  game.delivered # NoTask => game.payload = game.delivered.Location
\* a foot notification has been delivered with a location other than the one the
\* foot had when the notification was dispatched
C13_Witness ==
  /\ game.delivered.Name \in FootTaskNames
  /\ game.payload # game.delivered.Location

\* the inputs a tick of the scope may be given
TickInputs ==
  { [v |-> m.v, yaw |-> m.yaw, drift |-> d, slope |-> sl] :
      m \in MotionsOf(scope), d \in TipDriftsOf(scope), sl \in SlopeMultsOf(scope) }
\* the node of a step with the tick time of the step written by UpdateInternal
Updated == [node EXCEPT !.WorldDeltaSeconds = node'.WorldDeltaSeconds, !.AsyncTasks = << >>]
\* the feet data of leg l as set after the skipped ticks, with the actor where w has it
FeetDataSet(n, w, l) ==
  LET rest == Pt(cfg.Legs[l], 0 - n.OwnerHalfHeight)
      d == n.LegsData[l]
  IN /\ d.Length = n.OwnerHalfHeight
     /\ d.TipBoneOriginalRelLocation = rest
     /\ d.FootTarget = ToWorld(w, rest)
     /\ d.FootLocation = ToWorld(w, rest)
     /\ d.bIsForward = (cfg.Legs[l] >= 0)
     /\ d.bIsBackwards = (cfg.Legs[l] <= 0)
FeetDataKept(a, b) ==
  /\ a.Length = b.Length
  /\ a.TipBoneOriginalRelLocation = b.TipBoneOriginalRelLocation
  /\ a.bIsForward = b.bIsForward
  /\ a.bIsBackwards = b.bIsBackwards

\* C14: each of the first two evaluated ticks changes SkippedFrames only (beside the
\* tick time UpdateInternal stores); the third tick sets every leg's Length, rest
\* location, FootTarget, FootLocation and direction flags and then runs the whole
\* pipeline on them; every later tick runs the whole pipeline on the state it found,
\* without setting the feet data again.
C14_SkipOrWhole ==
  [][/\ tk'.kind = "skipped" =>
          /\ node.SkippedFrames < FRAMES_TO_SKIP_ON_INIT
          /\ node' = [Updated EXCEPT !.SkippedFrames = @ + 1]
     /\ (tk'.kind = "run" /\ ~node.bIsInitialized) =>
          /\ node.SkippedFrames = FRAMES_TO_SKIP_ON_INIT
          /\ node'.SkippedFrames = FRAMES_TO_SKIP_ON_INIT + 1 /\ node'.bIsInitialized
          /\ \E seeded \in { [Updated EXCEPT !.LegsData = ld,
                                              !.SkippedFrames = FRAMES_TO_SKIP_ON_INIT + 1,
                                              !.bIsInitialized = TRUE] :
                                 ld \in { InitFeetData(Updated, world').LegsData } } :
               /\ \A l \in Legs(seeded) : FeetDataSet(seeded, world', l)
               /\ \A l \in Legs(seeded) : FeetDataKept(seeded.LegsData[l], node'.LegsData[l])
               /\ \E in \in TickInputs : \E fed \in { Pipeline(seeded, world', in) } :
                    node' = ComputeBodyTransform(fed, world', in)
     /\ (tk'.kind = "run" /\ node.bIsInitialized) =>
          /\ node'.SkippedFrames = node.SkippedFrames /\ node'.bIsInitialized
          /\ \A l \in Legs(node) : FeetDataKept(node.LegsData[l], node'.LegsData[l])
          /\ \E found \in { FallingEvents(Updated, world') } :
               \E in \in TickInputs : \E fed \in { Pipeline(found, world', in) } :
                  node' = ComputeBodyTransform(fed, world', in)]_vars
\* a tick after the third has run the pipeline with the actor moved and has left a
\* planted foot where it was, away from its rest location under the actor
C14_Witness ==
  /\ tk.kind = "run" /\ node.SkippedFrames = FRAMES_TO_SKIP_ON_INIT + 1
  /\ UnplantedGroups(node) = {}
  /\ \E l \in Legs(node) : node.LegsData[l].FootLocation # RestInWorld(l)

\* a group's StepPercent was advanced by the last tick: the group is in its swing,
\* or the tick planted it at the end of its swing
Advanced(n, g) == n.GroupsData[g].bIsUnplanted \/ HasTask(n, "OnGroupDown", g)

\* C15 as stated: on every tick that runs the pipeline the divisors are not zero:
\* Speed + |YawDelta| where the step duration is the quotient, the tick time
\* WorldDeltaSeconds, and CurrentStepDuration (strictly positive) whenever a
\* group's StepPercent has been advanced.
C15_DivisorsNonZero ==
  tk.kind = "run" =>
    /\ node.Speed + Abs(node.YawDelta) > MinSpeedWithAngular => node.Speed + Abs(node.YawDelta) # 0
    /\ node.WorldDeltaSeconds # 0
    /\ \A g \in Groups(node) : Advanced(node, g) => node.CurrentStepDuration > 0
\* a tick has advanced a group's StepPercent by WorldDeltaSeconds / 0: the pawn
\* turns in place, its step length and so its step duration are 0
C15_Witness ==
  /\ tk.kind = "run" /\ node.Speed = 0 /\ Abs(node.YawDelta) > MinSpeedWithAngular
  /\ node.CurrentStepDuration = 0
  /\ \E g \in Groups(node) : Advanced(node, g)

\* the node as SetCurrentGroupUnplanted finds it on a tick that runs the pipeline
\* with the input in: after the falling events, the feet data of the third tick,
\* the pawn variables and the feet targets of the tick
AtScheduler(in) == Targets(Entering(FallingEvents(Updated, world'), world'), world', in)
\* the input in is, as far as the node records it, the one the step was given
GivenInput(m) == m.Speed = node'.Speed /\ m.YawDelta = node'.YawDelta
Predecessor(g) == (g + NumGroups - 1) % NumGroups
SomeLegAtUnplantDistance(m, g) ==
  \E l \in cfg.LegGroups[g] :
     Dist2(m.LegsData[l].FootLocation, m.LegsData[l].FootTarget) >= Sq(MinDistanceToUnplant)

\* C16: on a tick that runs the pipeline with the pawn not falling, the group the
\* pointer designates is unplanted if and only if it is planted, one of its legs is
\* at MinDistanceToUnplant or more from its target, and the group before it in the
\* cycle is planted or unplanted with StepPercent >= StepSequencePercent.
C16_UnplantCondition ==
  [][(tk'.kind = "run" /\ ~node'.bIsFalling) =>
       \E in \in TickInputs : \E m \in { AtScheduler(in) } :
          /\ GivenInput(m)
          /\ LET g == m.CurrentGroupIndex
                 p == m.GroupsData[Predecessor(g)]
             IN HasTask(node', "OnGroupUp", g)
                  <=> /\ ~m.GroupsData[g].bIsUnplanted
                      /\ SomeLegAtUnplantDistance(m, g)
                      /\ (~p.bIsUnplanted \/ p.StepPercent >= cfg.StepSequencePercent)]_vars
\* a group has been unplanted while the group before it was in its swing, at the
\* sequence percent exactly
C16_Witness ==
  /\ tk.kind = "run" /\ cfg.StepSequencePercent < PctOne
  /\ \E g \in Groups(node) :
        /\ HasTask(node, "OnGroupUp", g)
        /\ Predecessor(g) # g
        /\ node.GroupsData[Predecessor(g)].bIsUnplanted
        /\ node.GroupsData[Predecessor(g)].StepPercent
             = AdvanceStepPercent(cfg.StepSequencePercent, node.WorldDeltaSeconds,
                                  node.CurrentStepDuration)

\* C17: over every tick at most one group is unplanted, and it is the group that
\* CurrentGroupIndex designated when the tick began; and a tick that unplants no
\* group leaves no group unplanted that was not unplanted before it.
C17_OnlyDesignatedUnplants ==
  [][/\ Cardinality({g \in GroupIdx : Unplants(g)}) <= 1
     /\ \A g \in GroupIdx :
          Unplants(g) => (g = node.CurrentGroupIndex /\ CountTask(node', "OnGroupUp", g) = 1)
     /\ (\A g \in GroupIdx : ~Unplants(g))
          => UnplantedGroups(node') \subseteq UnplantedGroups(node)]_vars
\* a tick that moved no group has left planted a group that is not the designated
\* one, with a leg at the unplant distance or more from its target and the group
\* before it planted
C17_Witness ==
  /\ tk.kind = "run" /\ ~node.bIsFalling /\ ~tk.reset /\ ~HasStepTask(node)
  /\ \E g \in Groups(node) :
        /\ g # node.CurrentGroupIndex
        /\ ~node.GroupsData[g].bIsUnplanted
        /\ ~node.GroupsData[Predecessor(g)].bIsUnplanted
        /\ SomeLegAtUnplantDistance(node, g)

\* what the unplanting of a group must leave alone in a leg outside the group
LegFrame(d) ==
  [FootLocation |-> d.FootLocation, FootTarget |-> d.FootTarget,
   FootUnplantLocation |-> d.FootUnplantLocation,
   SupportComp |-> d.SupportComp,
   SupportCompPreviousTransform |-> d.SupportCompPreviousTransform]

\* C18: when SetCurrentGroupUnplanted unplants group g, every leg of g gets as
\* FootUnplantLocation the FootLocation it has at that point and g's StepPercent
\* becomes 0 (the anchors are still those at the end of the tick), while the other
\* groups' bIsUnplanted and StepPercent and the other legs' FootLocation,
\* FootTarget, FootUnplantLocation and support component data are as before.
C18_UnplantFrame ==
  [][(tk'.kind = "run" /\ ~node'.bIsFalling) =>
       \E in \in TickInputs : \E m \in { AtScheduler(in) } :
          /\ GivenInput(m)
          /\ HasTask(node', "OnGroupUp", m.CurrentGroupIndex) =>
               \E u \in { SetCurrentGroupUnplanted(m, world') } :
                  LET g == m.CurrentGroupIndex IN
                  /\ u.GroupsData[g] = [StepPercent |-> 0, bIsUnplanted |-> TRUE]
                  /\ \A h \in Groups(m) \ {g} : u.GroupsData[h] = m.GroupsData[h]
                  /\ \A l \in cfg.LegGroups[g] :
                       /\ u.LegsData[l].FootUnplantLocation = m.LegsData[l].FootLocation
                       /\ node'.LegsData[l].FootUnplantLocation = m.LegsData[l].FootLocation
                  /\ \A l \in Legs(m) \ cfg.LegGroups[g] :
                       /\ LegFrame(u.LegsData[l]) = LegFrame(m.LegsData[l])
                       /\ node'.LegsData[l].FootUnplantLocation
                            = m.LegsData[l].FootUnplantLocation]_vars
\* a group has been unplanted while a planted leg of another group stood away
\* from its own unplant anchor
C18_Witness ==
  /\ tk.kind = "run" /\ ~tk.reset
  /\ \E g \in Groups(node) :
        /\ HasTask(node, "OnGroupUp", g)
        /\ \E l \in Legs(node) \ cfg.LegGroups[g] :
              /\ ~node.GroupsData[node.LegsData[l].GroupIndex].bIsUnplanted
              /\ ~HasTask(node, "OnGroupDown", node.LegsData[l].GroupIndex)
              /\ node.LegsData[l].FootUnplantLocation # node.LegsData[l].FootLocation

\* C19: at every tick boundary no group is unplanted with StepPercent = 1.0; a tick
\* that dispatches a group's down tasks leaves the group planted at StepPercent =
\* 1.0; and a group that a tick without a reset takes from unplanted to planted is
\* at StepPercent = 1.0 and has had its down tasks dispatched.
C19_PlantAtSaturation ==
  /\ [](\A g \in Groups(node) :
          node.GroupsData[g].bIsUnplanted => node.GroupsData[g].StepPercent # PctOne)
  /\ [][\A g \in Groups(node) \cap Groups(node') :
          LET a == node.GroupsData[g]
              b == node'.GroupsData[g]
          IN /\ HasTask(node', "OnGroupDown", g)
                  => (~b.bIsUnplanted /\ b.StepPercent = PctOne)
             /\ (a.bIsUnplanted /\ ~b.bIsUnplanted /\ ~tk'.reset)
                  => (b.StepPercent = PctOne /\ HasTask(node', "OnGroupDown", g))]_vars
\* a tick has advanced a swinging group to the end of its step and planted it
\* while another group is still in its swing
C19_Witness ==
  /\ tk.kind = "run" /\ ~tk.reset
  /\ \E g \in Groups(node) :
        /\ HasTask(node, "OnGroupDown", g) /\ ~HasTask(node, "OnGroupUp", g)
        /\ node.GroupsData[g].StepPercent = PctOne
  /\ \E h \in Groups(node) :
        node.GroupsData[h].bIsUnplanted /\ 0 < node.GroupsData[h].StepPercent

\* C20: in every reachable state every group's StepPercent is in [0, 1], and the
\* StepPercent of a planted group is 0 or 1.
C20_StepPercentRange ==
  \A g \in Groups(node) :
     /\ 0 <= node.GroupsData[g].StepPercent /\ node.GroupsData[g].StepPercent <= PctOne
     /\ ~node.GroupsData[g].bIsUnplanted => node.GroupsData[g].StepPercent \in {0, PctOne}
\* a group that has not swung since the last reset stands planted at 0 beside a
\* group planted at 1 and a group part of the way through its swing
C20_Witness ==
  /\ tk.kind = "run"
  /\ \E g, h, k \in Groups(node) :
        /\ ~node.GroupsData[g].bIsUnplanted /\ node.GroupsData[g].StepPercent = 0
        /\ ~node.GroupsData[h].bIsUnplanted /\ node.GroupsData[h].StepPercent = PctOne
        /\ node.GroupsData[k].bIsUnplanted
        /\ 0 < node.GroupsData[k].StepPercent /\ node.GroupsData[k].StepPercent < PctOne

InSwing(g) == g \in Groups(node) /\ node.GroupsData[g].bIsUnplanted
\* C21: while ticks with a positive tick time and a positive step duration keep
\* being evaluated, every group that is unplanted is planted again at some later
\* tick (at the end of its step, or by a reset).
C21_SwingEnds ==
  \A g \in 0..2 : InSwing(g) ~> ~InSwing(g)
\* every group has gone through a whole swing and stands planted at the end of it
C21_Witness ==
  /\ tk.kind = "run" /\ ~tk.reset /\ Groups(node) # {}
  /\ \A g \in Groups(node) :
        ~node.GroupsData[g].bIsUnplanted /\ node.GroupsData[g].StepPercent = PctOne

\* a tick that runs the pipeline without a reset finds leg l in its swing at or
\* past FixFeetTargetsAfterPercent
FindsTargetFixed(l) ==
  /\ tk'.kind = "run" /\ ~tk'.reset
  /\ l \in Legs(node) /\ IsLegUnplanted(node, l)
  /\ GetLegStepPercent(node, l) >= FixFeetTargetsAfterPercent
\* the leg's target has moved by the tick's SupportCompDelta and by nothing else
TargetShiftedByDelta(l) ==
  node'.LegsData[l].FootTarget
    = Pt(node.LegsData[l].FootTarget.x + node'.LegsData[l].SupportCompDelta,
         node.LegsData[l].FootTarget.z)

\* C22 as stated: on every tick that finds a leg's group unplanted with StepPercent
\* at or past FixFeetTargetsAfterPercent, the leg's FootTarget changes by that
\* tick's SupportCompDelta and by nothing else.
C22_TargetFrozen ==
  [][\A l \in LegIdx : FindsTargetFixed(l) => TargetShiftedByDelta(l)]_vars
\* C22 amended: on such a tick the FootTarget changes by the tick's SupportCompDelta
\* and by nothing else if the tick's probe of the leg resolved a hit; if it did
\* not, the FootTarget is the leg's original location in world space.
C22_TargetFrozenOnHit ==
  [][\A l \in LegIdx : FindsTargetFixed(l) =>
        IF node'.LegsData[l].bEnableIK THEN TargetShiftedByDelta(l)
        ELSE node'.LegsData[l].FootTarget
               = ToWorld(world', node'.LegsData[l].TipBoneOriginalRelLocation)]_vars
\* a tick has ended the swing of a leg whose target was carried by the platform
\* instead of being moved to where the tick's probe hit
C22_Witness ==
  /\ tk.kind = "run" /\ ~tk.reset
  /\ \E l \in Legs(node) :
        /\ HasTask(node, "OnFootDown", l) /\ ~HasTask(node, "OnFootUp", l)
        /\ node.LegsData[l].bEnableIK
        /\ node.LegsData[l].SupportCompDelta # 0
        /\ node.LegsData[l].FootTarget # FreshTarget(node, world, l)

\* the step is a tick that ran the pipeline and was given the input in
TickGiven(in) ==
  /\ tk'.kind = "run"
  /\ in.yaw = node'.YawDelta
  /\ (IF in.v <= SPEED_THRESHOLD_MIN THEN 0 ELSE in.v) = node'.Speed
  /\ node' = EvaluateSkeletalControl_AnyThread(Updated, world', in)
\* leg l is planted for the whole of a tick that runs the pipeline of an
\* initialized node with the pawn on the ground before and after
StaysPlanted(l) ==
  /\ tk'.kind = "run" /\ node.bIsInitialized
  /\ ~node.bIsFalling /\ ~node'.bIsFalling
  /\ l \in Legs(node) /\ ~IsLegUnplanted(node, l)
  /\ ~HasTask(node', "OnFootUp", l)
FootShiftedBy(l, delta) ==
  node'.LegsData[l].FootLocation
    = Pt(node.LegsData[l].FootLocation.x + delta, node.LegsData[l].FootLocation.z)

\* C23: on a tick through which a leg's group stays planted with the pawn not
\* falling, the leg's FootLocation changes by exactly the tick's SupportCompDelta
\* if the foot is within MinDistanceToUnplant * DistanceCheckMultiplier of its
\* socket and does not change otherwise; with no support component it does not
\* change, wherever its FootTarget goes.
C23_PlantedFootFollowsSupport ==
  [][\A in \in TickInputs : TickGiven(in) =>
       \A l \in LegIdx : StaysPlanted(l) =>
          /\ IF 10 * in.drift <= MinDistanceToUnplant * DistanceCheckMultiplierTenths
             THEN FootShiftedBy(l, node'.LegsData[l].SupportCompDelta)
             ELSE FootShiftedBy(l, 0)
          /\ node.LegsData[l].SupportComp = "None" => FootShiftedBy(l, 0)]_vars
\* a planted foot on a support component that moved this tick, and a target that
\* is somewhere else
C23_Witness ==
  /\ tk.kind = "run" /\ ~tk.reset /\ ~node.bIsFalling
  /\ \E l \in Legs(node) :
        /\ ~IsLegUnplanted(node, l) /\ ~HasStepTask(node)
        /\ node.LegsData[l].SupportComp # "None"
        /\ node.LegsData[l].SupportCompDelta # 0
        /\ node.LegsData[l].FootTarget # node.LegsData[l].FootLocation

\* C24: a leg's SupportComp changes only on a tick that unplants or plants the
\* leg's group, such a tick leaves it the component of the leg's LastHit (or none),
\* and every tick leaves SupportCompDelta zero for a leg that entered it with no
\* SupportComp.
C24_SupportCompAtTransitions ==
  [][\A l \in Legs(node) \cap Legs(node') :
        LET d == node.LegsData[l]
            e == node'.LegsData[l]
            moved == HasTask(node', "OnFootUp", l) \/ HasTask(node', "OnFootDown", l)
        IN /\ e.SupportComp # d.SupportComp => moved
           /\ moved => e.SupportComp = e.LastHit.Component
           /\ d.SupportComp = "None" => e.SupportCompDelta = 0]_vars
\* a support component has been replaced by none at the end of a step that found
\* no ground, with the platform away from where it started
C24_Witness ==
  /\ tk.kind = "run" /\ world.PlatformX # 0
  /\ \E l \in Legs(node) :
        /\ HasTask(node, "OnFootDown", l) /\ ~HasTask(node, "OnFootUp", l)
        /\ node.LegsData[l].SupportComp = "None"
        /\ node.LegsData[l].SupportCompDelta # 0

\* C25: with the advanced solver the sphere trace of a leg runs if and only if the
\* line trace missed or its hit is farther from the anchor than
\* Length * DistanceCheckMultiplier; when it does not run, the leg gets the line
\* trace's hit.
C25_SphereTraceTrigger ==
  tk.kind = "run" =>
    \A l \in Legs(node), ax \in ActorXsOf(scope) :
       LET w == [world EXCEPT !.ActorX = ax]
           f == ProbeFacts(node, w, l)
           r == ResolveHit("ADVANCED", node, w, l)
       IN /\ r.bSphere <=> (~f.bRayHit \/ f.bTooDistant)
          /\ ~r.bSphere => (r.bIsHit /\ r.Hit = f.RayHit)
          /\ (cfg.SolverType = "ADVANCED" /\ ax = world.ActorX /\ ~r.bSphere)
               => (node.LegsData[l].LastHit = f.RayHit /\ node.LegsData[l].bEnableIK)
\* the advanced solver has just given one leg a foothold in place of a line hit
\* that was too distant
C25_Witness ==
  /\ cfg.SolverType = "ADVANCED" /\ tk.kind = "run"
  /\ \E l \in Legs(node) :
        LET f == ProbeFacts(node, world, l)
        IN /\ f.bRayHit /\ f.bTooDistant
           /\ node.LegsData[l].LastHit # f.RayHit
           /\ node.LegsData[l].LastHit \in Range(f.Candidates)

\* the weighted height by which the candidates of the sphere trace are ranked
FootHoldScore(a, h) == Abs(a.z - h.ImpactPoint.z) * h.OneMinusDot
\* the candidates that are closer to the anchor than the line hit; all of them if
\* the line trace missed
CloserFootHolds(n, w, l) ==
  LET a == StartLocationWithoutZOffset(n, w, l)
      f == ProbeFacts(n, w, l)
  IN { h \in Range(f.Candidates) :
         ~f.bRayHit \/ Dist2(a, h.ImpactPoint) < Dist2(a, f.RayHit.ImpactPoint) }

\* C26: after a tick of the advanced solver, a leg whose sphere trace ran holds the
\* candidate of least score among those closer to the anchor than the line hit, or
\* the line trace's result if none is closer; a leg whose line trace missed while
\* the sphere trace returned a candidate holds a candidate and has bEnableIK.
C26_FootHoldSelection ==
  (tk.kind = "run" /\ cfg.SolverType = "ADVANCED") =>
    \A l \in Legs(node) :
       LET a == StartLocationWithoutZOffset(node, world, l)
           f == ProbeFacts(node, world, l)
           closer == CloserFootHolds(node, world, l)
           d == node.LegsData[l]
       IN (~f.bRayHit \/ f.bTooDistant) =>
            /\ closer # {} =>
                  /\ d.LastHit \in closer /\ d.bEnableIK
                  /\ \A h \in closer : FootHoldScore(a, d.LastHit) <= FootHoldScore(a, h)
            /\ closer = {} => (d.LastHit = f.RayHit /\ d.bEnableIK = f.bRayHit)
\* the line trace of a leg missed, the sphere trace returned a candidate, and the
\* leg has been left without a hit
C26_Witness ==
  /\ tk.kind = "run" /\ cfg.SolverType = "ADVANCED"
  /\ \E l \in Legs(node) :
        /\ ~ProbeFacts(node, world, l).bRayHit
        /\ ProbeFacts(node, world, l).Candidates # << >>
        /\ ~node.LegsData[l].bEnableIK

\* by how much the group before g in the cycle is ahead of g in its step
LeadOfPredecessor(n, g) ==
  n.GroupsData[Predecessor(g)].StepPercent - n.GroupsData[g].StepPercent
\* g and the group before it are unplanted in n
BothInSwing(n, g) ==
  /\ Predecessor(g) # g
  /\ n.GroupsData[g].bIsUnplanted /\ n.GroupsData[Predecessor(g)].bIsUnplanted

\* C27: a tick that unplants a group and leaves the group before it in the swing
\* it was in leaves that group's StepPercent at least StepSequencePercent above
\* the new group's; a later tick that leaves both in those swings leaves it so;
\* and with StepSequencePercent >= 0.5 at most two groups are unplanted at any
\* tick boundary.
C27_PhaseGap ==
  /\ [][\A g \in Groups(node) \cap Groups(node') :
          (BothInSwing(node', g) /\ ~HasTask(node', "OnGroupUp", Predecessor(g))) =>
             /\ HasTask(node', "OnGroupUp", g)
                  => LeadOfPredecessor(node', g) >= cfg.StepSequencePercent
             /\ (BothInSwing(node, g) /\ ~HasTask(node', "OnGroupUp", g)
                   /\ LeadOfPredecessor(node, g) >= cfg.StepSequencePercent)
                  => LeadOfPredecessor(node', g) = LeadOfPredecessor(node, g)]_vars
  /\ [](2 * cfg.StepSequencePercent >= PctOne => Cardinality(UnplantedGroups(node)) <= 2)
\* three groups in their swings a quarter of a step apart: the first two have gone
\* through a tick together since the second was unplanted
C27_Witness ==
  /\ tk.kind = "run" /\ NumGroups = 3 /\ cfg.StepSequencePercent < PctOne
  /\ HasTask(node, "OnGroupUp", 2)
  /\ BothInSwing(node, 1) /\ BothInSwing(node, 2)
  /\ LeadOfPredecessor(node, 1) >= cfg.StepSequencePercent
  /\ LeadOfPredecessor(node, 2) >= cfg.StepSequencePercent

\* C28: in every reachable state with bIsFalling set, every group is planted with
\* StepPercent 0, CurrentGroupIndex is 0 and the feet data have been initialized.
C28_FallingIsAtRest ==
  node.bIsFalling =>
    /\ node.bIsInitialized /\ node.SkippedFrames > FRAMES_TO_SKIP_ON_INIT
    /\ node.CurrentGroupIndex = 0
    /\ \A g \in DOMAIN node.GroupsData :
          node.GroupsData[g] = [StepPercent |-> 0, bIsUnplanted |-> FALSE]
\* the pawn is still falling on a tick after the one on which the fall cut a
\* group's swing short
C28_Witness ==
  /\ node.bIsFalling /\ tk.kind = "run" /\ ~tk.reset
  /\ tk.up # {} /\ NumGroups >= 2

\* C29: with one group the group before group 0 is group 0 itself and the pointer
\* is always 0; a tick that finds the group planted with a leg at
\* MinDistanceToUnplant or more from its target unplants it, whatever
\* StepSequencePercent is; and a group in its swing is planted again.
C29_SingleGroupCycles ==
  /\ []((pc = "running" /\ NumGroups = 1)
          => (PreviousGroupIndex(0) = 0 /\ node.CurrentGroupIndex = 0))
  /\ [][(NumGroups = 1 /\ tk'.kind = "run" /\ ~node'.bIsFalling) =>
          \E in \in TickInputs : \E m \in { AtScheduler(in) } :
             /\ GivenInput(m)
             /\ (~m.GroupsData[0].bIsUnplanted /\ SomeLegAtUnplantDistance(m, 0))
                  => (HasTask(node', "OnGroupUp", 0) /\ node'.CurrentGroupIndex = 0)]_vars
  /\ (NumGroups = 1 /\ InSwing(0)) ~> ~InSwing(0)
\* the single group has been planted at the end of a step that it was let go on
\* with StepSequencePercent below 1
C29_Witness ==
  /\ NumGroups = 1 /\ tk.kind = "run" /\ cfg.StepSequencePercent < PctOne
  /\ HasTask(node, "OnGroupDown", 0)
  /\ node.GroupsData[0] = [StepPercent |-> PctOne, bIsUnplanted |-> FALSE]
  /\ node.CurrentGroupIndex = 0

\* C30: a tick that finds bIsFalling set and the pawn on a base hands over exactly
\* one OnPawnLanded, ahead of every task of that tick's pipeline, which starts from
\* the reset groups; no other step hands one over; and bIsFalling is only ever
\* set on an initialized node.
C30_LandedOncePerLanding ==
  /\ [][IF Lands
        THEN /\ CountTask(node', "OnPawnLanded", 0) = 1
             /\ node'.AsyncTasks[1] = Task("OnPawnLanded", 0, ActorLocation(world'))
             /\ FallingEvents(Updated, world').AsyncTasks = << node'.AsyncTasks[1] >>
             /\ \A g \in Groups(node') : HasTask(node', "OnGroupUp", g) => g = 0
             /\ ~HasTask(node', "OnGroupDown", 0)
             /\ node.bIsInitialized /\ ~node'.bIsFalling
        ELSE \A k \in DOMAIN node'.AsyncTasks : node'.AsyncTasks[k].Name # "OnPawnLanded"]_vars
  /\ [](node.bIsFalling => node.bIsInitialized)
\* a landing has just been detected on a tick that went on to unplant group 0,
\* after a fall that had cut the swing of another group short
C30_Witness ==
  /\ tk.kind = "run" /\ tk.reset /\ ~node.bIsFalling /\ NumGroups >= 2
  /\ Len(node.AsyncTasks) > 1
  /\ node.AsyncTasks[1].Name = "OnPawnLanded"
  /\ HasTask(node, "OnGroupUp", 0)
  /\ tk.up # {0}

\* the groups that the tasks of the step say were unplanted, and were planted
UnplantedByTick == {g \in Groups(node') : HasTask(node', "OnGroupUp", g)}
PlantedByTick == {g \in Groups(node') : HasTask(node', "OnGroupDown", g)}
\* the body pose of the step is the one computed from the feet the step leaves
BodyFromFinalFeet(in) ==
  node'.ReduceSlopeMultiplierPitch
    = ComputeBodyTransform(node', world', in).ReduceSlopeMultiplierPitch

====
